---- MODULE Spec2Model ----
(***************************************************************************)
(* Jarvis launcher: the command dispatcher of jarvis_ui/main_window.py and *)
(* the two automators of jarvis_utils (windows_automator.py,               *)
(* android_automator.py).                                                  *)
(*                                                                         *)
(* A Python str is modelled as a sequence of one-character strings, so     *)
(* that lower(), split(), strip(), `in`, endswith(), replace(), int() and  *)
(* str() are computed on the characters, as the interpreter computes them. *)
(* A formatted message (an f-string) is a record of its templates, the     *)
(* outermost first, and of the interpolated values in reading order.       *)
(***************************************************************************)
EXTENDS Integers, Sequences, FiniteSets, TLC

(***************************************************************************)
(* Python str operations                                                   *)
(***************************************************************************)
UpperLetters ==
    <<"A", "B", "C", "D", "E", "F", "G", "H", "I", "J", "K", "L", "M",
      "N", "O", "P", "Q", "R", "S", "T", "U", "V", "W", "X", "Y", "Z">>

LowerLetters ==
    <<"a", "b", "c", "d", "e", "f", "g", "h", "i", "j", "k", "l", "m",
      "n", "o", "p", "q", "r", "s", "t", "u", "v", "w", "x", "y", "z">>

Digits ==
    <<"0", "1", "2", "3", "4", "5", "6", "7", "8", "9">>

\* str.lower() on one character
lower_char(c) ==
    IF \E i \in 1..Len(UpperLetters) : UpperLetters[i] = c
    THEN LowerLetters[CHOOSE i \in 1..Len(UpperLetters) : UpperLetters[i] = c]
    ELSE c

\* str.lower()
lower(s) ==
    [i \in 1..Len(s) |-> lower_char(s[i])]

\* the characters str.split() and str.strip() treat as whitespace
is_space(c) ==
    c \in {" ", "\t", "\n"}

RECURSIVE split_ws(_, _, _)
split_ws(s, cur, acc) ==
    IF s = <<>>
    THEN IF cur = <<>> THEN acc ELSE Append(acc, cur)
    ELSE IF is_space(Head(s))
         THEN split_ws(Tail(s), <<>>, IF cur = <<>> THEN acc ELSE Append(acc, cur))
         ELSE split_ws(Tail(s), Append(cur, Head(s)), acc)

\* str.split(): the maximal runs of non-whitespace characters, in order
split(s) ==
    split_ws(s, <<>>, <<>>)

RECURSIVE split_sep(_, _, _, _)
split_sep(s, sep, cur, acc) ==
    IF s = <<>>
    THEN Append(acc, cur)
    ELSE IF Head(s) = sep
         THEN split_sep(Tail(s), sep, <<>>, Append(acc, cur))
         ELSE split_sep(Tail(s), sep, Append(cur, Head(s)), acc)

\* str.split(sep) for a one-character separator: empty fields are kept
split_on(s, sep) ==
    split_sep(s, sep, <<>>, <<>>)

RECURSIVE lstrip(_)
lstrip(s) ==
    IF s # <<>> /\ is_space(Head(s)) THEN lstrip(Tail(s)) ELSE s

RECURSIVE rstrip(_)
rstrip(s) ==
    IF s # <<>> /\ is_space(s[Len(s)]) THEN rstrip(SubSeq(s, 1, Len(s) - 1)) ELSE s

\* str.strip()
strip(s) ==
    rstrip(lstrip(s))

RECURSIVE join(_, _)
\* sep.join(parts)
join(sep, parts) ==
    IF parts = <<>> THEN <<>>
    ELSE IF Len(parts) = 1 THEN parts[1]
    ELSE parts[1] \o sep \o join(sep, Tail(parts))

\* sub in s
contains(s, sub) ==
    \E i \in 0..(Len(s) - Len(sub)) : SubSeq(s, i + 1, i + Len(sub)) = sub

\* s.endswith(suffix)
endswith(s, suffix) ==
    /\ Len(suffix) <= Len(s)
    /\ SubSeq(s, Len(s) - Len(suffix) + 1, Len(s)) = suffix

\* str.replace that replaces only the first occurrence
replace_first(s, old, new) ==
    IF \E i \in 1..Len(s) : s[i] = old
    THEN LET i == CHOOSE i \in 1..Len(s) : s[i] = old /\ \A j \in 1..(i - 1) : s[j] # old
         IN  SubSeq(s, 1, i - 1) \o new \o SubSeq(s, i + 1, Len(s))
    ELSE s

RECURSIVE replace_char(_, _, _)
\* s.replace(old, new) for a one-character old
replace_char(s, old, new) ==
    IF s = <<>> THEN <<>>
    ELSE (IF Head(s) = old THEN new ELSE <<Head(s)>>) \o replace_char(Tail(s), old, new)

\* x in a list
in_list(x, xs) ==
    \E i \in 1..Len(xs) : xs[i] = x

\* list.index(x), counted from 1; the caller has checked x in xs
index_of(xs, x) ==
    CHOOSE i \in 1..Len(xs) : xs[i] = x /\ \A j \in 1..(i - 1) : xs[j] # x

digit_value(c) ==
    (CHOOSE i \in 1..Len(Digits) : Digits[i] = c) - 1

is_digit(c) ==
    \E i \in 1..Len(Digits) : Digits[i] = c

unsigned_part(s) ==
    IF s # <<>> /\ s[1] \in {"+", "-"} THEN Tail(s) ELSE s

\* int(s) does not raise ValueError: an optional sign and one or more
\* decimal digits (the inputs hold no whitespace and no underscores)
is_int(s) ==
    /\ unsigned_part(s) # <<>>
    /\ \A i \in 1..Len(unsigned_part(s)) : is_digit(unsigned_part(s)[i])

RECURSIVE digits_value(_, _)
digits_value(s, acc) ==
    IF s = <<>> THEN acc ELSE digits_value(Tail(s), 10 * acc + digit_value(Head(s)))

\* int(s)
to_int(s) ==
    IF s[1] = "-" THEN 0 - digits_value(Tail(s), 0) ELSE digits_value(unsigned_part(s), 0)

RECURSIVE nat_str(_)
nat_str(n) ==
    IF n < 10 THEN <<Digits[n + 1]>> ELSE nat_str(n \div 10) \o <<Digits[(n % 10) + 1]>>

\* str(n) for an int
int_str(n) ==
    IF n < 0 THEN <<"-">> \o nat_str(0 - n) ELSE nat_str(n)

(***************************************************************************)
(* String literals of the source                                           *)
(***************************************************************************)
lit_hello ==
    <<"h", "e", "l", "l", "o">>
lit_open ==
    <<"o", "p", "e", "n">>
lit_list ==
    <<"l", "i", "s", "t">>
lit_system ==
    <<"s", "y", "s", "t", "e", "m">>
lit_screenshot ==
    <<"s", "c", "r", "e", "e", "n", "s", "h", "o", "t">>
lit_adb ==
    <<"a", "d", "b">>
lit_on ==
    <<"o", "n">>
lit_android ==
    <<"a", "n", "d", "r", "o", "i", "d">>
lit_windows ==
    <<"w", "i", "n", "d", "o", "w", "s">>
lit_devices ==
    <<"d", "e", "v", "i", "c", "e", "s">>
lit_tap ==
    <<"t", "a", "p">>
lit_swipe ==
    <<"s", "w", "i", "p", "e">>
lit_text ==
    <<"t", "e", "x", "t">>
lit_png ==
    <<".", "p", "n", "g">>
lit_jpg ==
    <<".", "j", "p", "g">>
lit_jpeg ==
    <<".", "j", "p", "e", "g">>
lit_jarvis_screenshot ==
    <<"j", "a", "r", "v", "i", "s", "_", "s", "c", "r", "e", "e", "n", "s", "h", "o", "t">>
lit_underscore ==
    <<"_">>
lit_space ==
    <<" ">>
lit_start ==
    <<"s", "t", "a", "r", "t", " ">>
lit_shutdown ==
    <<"s", "h", "u", "t", "d", "o", "w", "n">>
lit_restart ==
    <<"r", "e", "s", "t", "a", "r", "t">>
lit_shutdown_cmd ==
    <<"s", "h", "u", "t", "d", "o", "w", "n", " ", "/", "s", " ", "/", "t", " ", "1">>
lit_restart_cmd ==
    <<"s", "h", "u", "t", "d", "o", "w", "n", " ", "/", "r", " ", "/", "t", " ", "1">>
lit_version ==
    <<"-", "-", "v", "e", "r", "s", "i", "o", "n">>
lit_dash_s ==
    <<"-", "s">>
lit_shell ==
    <<"s", "h", "e", "l", "l">>
lit_monkey ==
    <<"m", "o", "n", "k", "e", "y">>
lit_dash_p ==
    <<"-", "p">>
lit_dash_c ==
    <<"-", "c">>
lit_launcher ==
    <<"a", "n", "d", "r", "o", "i", "d", ".", "i", "n", "t", "e", "n", "t", ".", "c", "a", "t", "e", "g", "o", "r", "y", ".", "L", "A", "U", "N", "C", "H", "E", "R">>
lit_one ==
    <<"1">>
lit_pm ==
    <<"p", "m">>
lit_packages ==
    <<"p", "a", "c", "k", "a", "g", "e", "s">>
lit_input ==
    <<"i", "n", "p", "u", "t">>
lit_screencap ==
    <<"s", "c", "r", "e", "e", "n", "c", "a", "p">>
lit_pull ==
    <<"p", "u", "l", "l">>
lit_rm ==
    <<"r", "m">>
lit_sdcard_path ==
    <<"/", "s", "d", "c", "a", "r", "d", "/", "s", "c", "r", "e", "e", "n", "s", "h", "o", "t", ".", "p", "n", "g">>
lit_events_injected ==
    <<"E", "v", "e", "n", "t", "s", " ", "i", "n", "j", "e", "c", "t", "e", "d", ":", " ", "1">>
lit_tab_offline ==
    <<"\t", "o", "f", "f", "l", "i", "n", "e">>
lit_quote_escaped ==
    <<"'", "\\", "'", "'">>


(***************************************************************************)
(* Messages and results                                                    *)
(***************************************************************************)
\* an f-string with no nested message: its template and its values
Msg(template, values) ==
    [tpl |-> <<template>>, args |-> values]

\* an f-string whose last field is another message
Wrap(template, values, inner) ==
    [tpl |-> <<template>> \o inner.tpl, args |-> values \o inner.args]

\* a plain str used as a message (a process's output, str(e))
Plain(s) ==
    Msg("{}", <<s>>)

\* the str a plain message holds
TextOf(msg) ==
    msg.args[1]

\* whether a message is built from the given template, at any nesting depth
HasTemplate(msg, template) ==
    \E i \in 1..Len(msg.tpl) : msg.tpl[i] = template

\* the (success, message-or-list) pair an automator method returns, with the
\* external calls the method made and the exception that escaped it, if any
Result(success, message, list, made, exc) ==
    [ok |-> success, msg |-> message, items |-> list, calls |-> made, raised |-> exc]

\* one external call: a subprocess or a filesystem call and its arguments
Call(function, arguments) ==
    [fn |-> function, argv |-> arguments]

(***************************************************************************)
(* The environment: what the external calls can do                         *)
(***************************************************************************)
\* str(e) of an exception raised by the environment
ExcText ==
    <<"b", "o", "o", "m">>

ProcExit0(out) ==
    [kind |-> "exit0", stdout |-> out, stderr |-> <<>>, exc |-> <<>>]

ProcNonZero(out, err) ==
    [kind |-> "CalledProcessError", stdout |-> out, stderr |-> err, exc |-> <<>>]

ProcNotFound ==
    [kind |-> "FileNotFoundError", stdout |-> <<>>, stderr |-> <<>>, exc |-> ExcText]

ProcOther ==
    [kind |-> "Exception", stdout |-> <<>>, stderr |-> <<>>, exc |-> ExcText]

\* stderr and stdout of a failed adb call
ErrText ==
    <<"e", "r", "r", "o", "r", ":", " ", "n", "o", " ", "d", "e", "v", "i", "c", "e", "\n">>

OutText ==
    <<" ", "f", "a", "i", "l", "e", "d", "\n">>

\* the ways a subprocess.run(..., check=True) call can fail
ProcFailures ==
    {ProcNotFound, ProcOther, ProcNonZero(OutText, ErrText)}

(***************************************************************************)
(* jarvis_utils/windows_automator.py                                       *)
(***************************************************************************)
\* whether subprocess.Popen raises
PopenOutcomes ==
    {"ok", "raise"}

\* open_application without the except clause: the exception of Popen escapes
open_application_propagating(app_name, oc) ==
    IF oc = "ok"
    THEN Result(TRUE, Msg("Attempting to open '{}'.", <<app_name>>), <<>>,
                <<Call("Popen", <<lit_start \o app_name>>)>>, "")
    ELSE Result(FALSE, Plain(<<>>), <<>>,
                <<Call("Popen", <<lit_start \o app_name>>)>>, "Exception")

\* open_application when subprocess.Popen ends as given
open_application_given(app_name, oc) ==
    IF oc = "ok"
    THEN Result(TRUE, Msg("Attempting to open '{}'.", <<app_name>>), <<>>,
                <<Call("Popen", <<lit_start \o app_name>>)>>, "")
    ELSE Result(FALSE, Msg("Error opening application '{}': {}", <<app_name, ExcText>>), <<>>,
                <<Call("Popen", <<lit_start \o app_name>>)>>, "")

open_application(app_name) ==
    { open_application_given(app_name, oc) : oc \in PopenOutcomes }

\* directory entries os.listdir may yield, in the order it yields them
DirListings ==
    { <<>>, << <<"b">>, <<"a">> >> }

\* what the filesystem answers for a path: missing, a file, a directory that
\* lists, a directory whose listing raises
PathKinds ==
    {"missing", "file", "dir", "dir_unreadable"}

\* list_directory_contents that returns the listing in reverse order
list_directory_contents_reversed(dir_path, kind, entries) ==
    IF kind \in {"missing", "file"}
    THEN Result(FALSE, Msg("Error: Directory '{}' not found or is not a directory.", <<dir_path>>),
                <<>>, <<Call("os.path.exists", <<dir_path>>)>>, "")
    ELSE IF kind = "dir"
    THEN Result(TRUE, Msg("", <<>>), [i \in 1..Len(entries) |-> entries[Len(entries) + 1 - i]],
                <<Call("os.path.exists", <<dir_path>>), Call("os.path.isdir", <<dir_path>>),
                  Call("os.listdir", <<dir_path>>)>>, "")
    ELSE Result(FALSE, Msg("Error listing directory '{}': {}", <<dir_path, ExcText>>), <<>>,
                <<Call("os.path.exists", <<dir_path>>), Call("os.path.isdir", <<dir_path>>),
                  Call("os.listdir", <<dir_path>>)>>, "")

\* list_directory_contents when the filesystem answers as given; entries is
\* what os.listdir yields when it is called and does not raise
list_directory_contents_given(dir_path, kind, entries) ==
    IF kind = "missing"
    THEN Result(FALSE, Msg("Error: Directory '{}' not found or is not a directory.", <<dir_path>>),
                <<>>, <<Call("os.path.exists", <<dir_path>>)>>, "")
    ELSE IF kind = "file"
    THEN Result(FALSE, Msg("Error: Directory '{}' not found or is not a directory.", <<dir_path>>),
                <<>>, <<Call("os.path.exists", <<dir_path>>), Call("os.path.isdir", <<dir_path>>)>>, "")
    ELSE IF kind = "dir"
    THEN Result(TRUE, Msg("", <<>>), entries,
                <<Call("os.path.exists", <<dir_path>>), Call("os.path.isdir", <<dir_path>>),
                  Call("os.listdir", <<dir_path>>)>>, "")
    ELSE Result(FALSE, Msg("Error listing directory '{}': {}", <<dir_path, ExcText>>), <<>>,
                <<Call("os.path.exists", <<dir_path>>), Call("os.path.isdir", <<dir_path>>),
                  Call("os.listdir", <<dir_path>>)>>, "")

list_directory_contents(dir_path) ==
    { list_directory_contents_given(dir_path, kind, entries)
      : kind \in PathKinds, entries \in DirListings }

\* the commands dict of system_command
commands ==
    [k \in {lit_shutdown, lit_restart} |->
        IF k = lit_shutdown THEN lit_shutdown_cmd ELSE lit_restart_cmd]

\* system_command that refuses while confirmation is required
system_command_confirming(command_key, confirmation_required) ==
    IF command_key \notin DOMAIN commands
    THEN Result(FALSE, Msg("Unknown system command: {}", <<command_key>>), <<>>, <<>>, "")
    ELSE IF confirmation_required
    THEN Result(FALSE, Msg("Confirmation required for system command: {}", <<command_key>>), <<>>, <<>>, "")
    ELSE Result(TRUE, Msg("Simulating execution of system command: '{}'. Actual command: '{}'",
                          <<command_key, commands[command_key]>>), <<>>, <<>>, "")

\* system_command with the subprocess.Popen line of its try block enabled
system_command_executing(command_key, confirmation_required) ==
    IF command_key \notin DOMAIN commands
    THEN Result(FALSE, Msg("Unknown system command: {}", <<command_key>>), <<>>, <<>>, "")
    ELSE Result(TRUE, Msg("Simulating execution of system command: '{}'. Actual command: '{}'",
                          <<command_key, commands[command_key]>>), <<>>,
                <<Call("Popen", <<commands[command_key]>>)>>, "")

system_command(command_key, confirmation_required) ==
    IF command_key \notin DOMAIN commands
    THEN Result(FALSE, Msg("Unknown system command: {}", <<command_key>>), <<>>, <<>>, "")
    ELSE Result(TRUE, Msg("Simulating execution of system command: '{}'. Actual command: '{}'",
                          <<command_key, commands[command_key]>>), <<>>, <<>>, "")

take_screenshot(output_filepath) ==
    Result(FALSE, Msg("Screenshot functionality is a placeholder and not yet implemented.", <<>>),
           <<>>, <<>>, "")

(***************************************************************************)
(* The adb binary as the environment: what each adb call may print         *)
(***************************************************************************)
VersionText ==
    <<"A", "n", "d", "r", "o", "i", "d", " ", "D", "e", "b", "u", "g", " ", "B", "r", "i", "d", "g", "e", " ", "v", "e", "r", "s", "i", "o", "n", " ", "1", ".", "0", ".", "4", "1", "\n">>
NoDevices ==
    <<"L", "i", "s", "t", " ", "o", "f", " ", "d", "e", "v", "i", "c", "e", "s", " ", "a", "t", "t", "a", "c", "h", "e", "d", "\n", "\n">>
OneDevice ==
    <<"L", "i", "s", "t", " ", "o", "f", " ", "d", "e", "v", "i", "c", "e", "s", " ", "a", "t", "t", "a", "c", "h", "e", "d", "\n", "e", "m", "1", "\t", "d", "e", "v", "i", "c", "e", "\n">>
OfflineDevice ==
    <<"L", "i", "s", "t", " ", "o", "f", " ", "d", "e", "v", "i", "c", "e", "s", " ", "a", "t", "t", "a", "c", "h", "e", "d", "\n", "e", "m", "1", "\t", "o", "f", "f", "l", "i", "n", "e", "\n">>
TwoDevices ==
    <<"L", "i", "s", "t", " ", "o", "f", " ", "d", "e", "v", "i", "c", "e", "s", " ", "a", "t", "t", "a", "c", "h", "e", "d", "\n", "e", "m", "1", "\t", "d", "e", "v", "i", "c", "e", "\n", "\n", "T", "A", "2", "\t", "o", "f", "f", "l", "i", "n", "e", "\n">>
MonkeyInjected ==
    <<" ", " ", "E", "v", "e", "n", "t", "s", " ", "i", "n", "j", "e", "c", "t", "e", "d", ":", " ", "1", "\n">>
MonkeyAborted ==
    <<"*", "*", " ", "N", "o", " ", "a", "c", "t", "i", "v", "i", "t", "i", "e", "s", " ", "f", "o", "u", "n", "d", " ", "t", "o", " ", "r", "u", "n", ",", " ", "m", "o", "n", "k", "e", "y", " ", "a", "b", "o", "r", "t", "e", "d", ".", "\n">>
PackagePrefix ==
    <<"p", "a", "c", "k", "a", "g", "e", ":">>

\* what "adb devices" may print
DeviceListings ==
    {NoDevices, OneDevice, OfflineDevice, TwoDevices}

\* what "adb shell monkey ..." may print when it exits with status 0
MonkeyOutputs ==
    {<<>>, MonkeyInjected, MonkeyAborted}

\* what "adb shell pm list packages <name>" may print when it exits with status 0
PmOutputs(package_name) ==
    {<<>>, PackagePrefix \o package_name \o <<"\n">>}

\* the standard output of an adb call that exits with status 0
Stdouts(command_parts) ==
    IF command_parts = <<lit_devices>> THEN DeviceListings
    ELSE IF in_list(lit_monkey, command_parts) THEN MonkeyOutputs
    ELSE IF in_list(lit_pm, command_parts) THEN PmOutputs(command_parts[Len(command_parts)])
    ELSE {<<>>}

\* every outcome of one adb call
AdbOutcomes(command_parts) ==
    {ProcExit0(out) : out \in Stdouts(command_parts)} \cup ProcFailures

\* every outcome of the "--version" query
VersionOutcomes ==
    {ProcExit0(VersionText)} \cup ProcFailures

(***************************************************************************)
(* jarvis_utils/android_automator.py                                       *)
(***************************************************************************)
\* the (raised, returned) outcome of _check_adb_device for the outcomes of
\* its two subprocess.run calls; the second is made only after the first
\* succeeded
check_adb_device(adb_path, version, devices) ==
    IF version.kind \in {"CalledProcessError", "FileNotFoundError"}
    THEN [raised |-> "", ret |-> FALSE, calls |-> <<Call("subprocess.run", <<adb_path, lit_version>>)>>]
    ELSE IF version.kind # "exit0"
    THEN [raised |-> version.kind, ret |-> FALSE,
          calls |-> <<Call("subprocess.run", <<adb_path, lit_version>>)>>]
    ELSE LET made == <<Call("subprocess.run", <<adb_path, lit_version>>),
                       Call("subprocess.run", <<adb_path, lit_devices>>)>>
             listed == Tail(split_on(strip(devices.stdout), "\n"))
             active == SelectSeq(listed, LAMBDA line :
                                     strip(line) # <<>> /\ ~endswith(line, lit_tab_offline))
         IN  IF devices.kind # "exit0"
             THEN [raised |-> "", ret |-> FALSE, calls |-> made]
             ELSE IF listed = <<>> \/ (Len(listed) = 1 /\ strip(listed[1]) = <<>>)
             THEN [raised |-> "", ret |-> FALSE, calls |-> made]
             ELSE IF active = <<>>
             THEN [raised |-> "", ret |-> FALSE, calls |-> made]
             ELSE [raised |-> "", ret |-> TRUE, calls |-> made]

\* AndroidAutomator(adb_path): every outcome of the constructor
AndroidAutomator_init(adb_path) ==
    { check_adb_device(adb_path, version, devices)
      : version \in VersionOutcomes, devices \in AdbOutcomes(<<lit_devices>>) }

full_command(adb_path, command_parts, device_id) ==
    <<adb_path>> \o (IF device_id # <<>> THEN <<lit_dash_s, device_id>> ELSE <<>>) \o command_parts

\* _run_adb_command whose subprocess.run call lacks check=True: a non-zero
\* exit is returned like a zero one
run_adb_command_unchecked(adb_path, command_parts, device_id, outcome) ==
    LET made == <<Call("subprocess.run", full_command(adb_path, command_parts, device_id))>>
    IN  IF outcome.kind \in {"exit0", "CalledProcessError"}
        THEN Result(TRUE, Plain(strip(outcome.stdout)), <<>>, made, "")
        ELSE Result(FALSE, Msg("An unexpected error occurred: {}", <<outcome.exc>>), <<>>, made, "")

\* the error message that reports stderr only, without the fallback to stdout
error_message_stderr_only(outcome) ==
    strip(outcome.stderr)

\* line 68: what a failed adb call is reported with
error_message(outcome) ==
    IF outcome.stderr # <<>> THEN strip(outcome.stderr) ELSE strip(outcome.stdout)

\* _run_adb_command for one outcome of its subprocess.run call
run_adb_command(adb_path, command_parts, device_id, outcome) ==
    LET cmd  == full_command(adb_path, command_parts, device_id)
        made == <<Call("subprocess.run", cmd)>>
    IN  IF outcome.kind = "exit0"
        THEN Result(TRUE, Plain(strip(outcome.stdout)), <<>>, made, "")
        ELSE IF outcome.kind = "FileNotFoundError"
        THEN Result(FALSE,
                    Msg("Error: ADB executable not found. Please ensure it's installed and in your PATH.", <<>>),
                    <<>>, made, "")
        ELSE IF outcome.kind = "CalledProcessError"
        THEN Result(FALSE,
                    Msg("ADB Command Error: '{}' failed with: {}",
                        <<join(lit_space, cmd), error_message(outcome)>>),
                    <<>>, made, "")
        ELSE Result(FALSE, Msg("An unexpected error occurred: {}", <<outcome.exc>>), <<>>, made, "")

\* _run_adb_command over every outcome of the call
run_adb(adb_path, command_parts, device_id) ==
    { run_adb_command(adb_path, command_parts, device_id, outcome)
      : outcome \in AdbOutcomes(command_parts) }

\* list_connected_devices that keeps the header line
list_connected_devices_with_header(adb_path, outcome) ==
    LET r == run_adb_command(adb_path, <<lit_devices>>, <<>>, outcome)
    IN  IF r.ok
        THEN LET lines == split_on(strip(TextOf(r.msg)), "\n")
                 kept  == SelectSeq(lines, LAMBDA line : strip(line) # <<>>)
             IN  Result(TRUE, Msg("", <<>>), [i \in 1..Len(kept) |-> split_on(kept[i], "\t")[1]],
                        r.calls, "")
        ELSE Result(FALSE, r.msg, <<>>, r.calls, "")

\* list_connected_devices when the "adb devices" call ends as given
list_connected_devices_given(adb_path, outcome) ==
    LET r == run_adb_command(adb_path, <<lit_devices>>, <<>>, outcome)
    IN  IF r.ok
        THEN LET lines == split_on(strip(TextOf(r.msg)), "\n")
                 kept  == SelectSeq(Tail(lines), LAMBDA line : strip(line) # <<>>)
             IN  Result(TRUE, Msg("", <<>>), [i \in 1..Len(kept) |-> split_on(kept[i], "\t")[1]],
                        r.calls, "")
        ELSE Result(FALSE, r.msg, <<>>, r.calls, "")

list_connected_devices(adb_path) ==
    { list_connected_devices_given(adb_path, outcome) : outcome \in AdbOutcomes(<<lit_devices>>) }

\* the adb arguments of the two calls of open_app
monkey_command(package_name) ==
    <<lit_shell, lit_monkey, lit_dash_p, package_name, lit_dash_c, lit_launcher, lit_one>>

probe_command(package_name) ==
    <<lit_shell, lit_pm, lit_list, lit_packages, package_name>>

\* open_app's test of the monkey output that misses the empty output
launched_injected_only(output) ==
    contains(output, lit_events_injected)

\* line 104: the monkey output says the app was launched
launched(output) ==
    contains(output, lit_events_injected) \/ output = <<>>

\* open_app that looks the package up also after the monkey call failed
open_app_probing(adb_path, package_name, device_id, monkey, listed) ==
    LET r     == run_adb_command(adb_path, monkey_command(package_name), device_id, monkey)
        probe == run_adb_command(adb_path, probe_command(package_name), device_id, listed)
    IN  IF ~r.ok
        THEN Result(FALSE, r.msg, <<>>, r.calls \o probe.calls, "")
        ELSE IF launched(TextOf(r.msg))
        THEN Result(TRUE, Msg("Attempting to open app '{}'.", <<package_name>>), <<>>, r.calls, "")
        ELSE IF probe.ok /\ contains(TextOf(probe.msg), package_name)
        THEN Result(FALSE,
                    Msg("App '{}' found, but could not be launched via monkey. Output: {}",
                        <<package_name, TextOf(r.msg)>>),
                    <<>>, r.calls \o probe.calls, "")
        ELSE Result(FALSE,
                    Msg("Failed to open app '{}'. It might not be installed or launchable. ADB Output: {}",
                        <<package_name, TextOf(r.msg)>>),
                    <<>>, r.calls \o probe.calls, "")

\* open_app when the monkey call and, if it is made, the package-list call
\* end as given
open_app_given(adb_path, package_name, device_id, monkey, listed) ==
    LET r     == run_adb_command(adb_path, monkey_command(package_name), device_id, monkey)
        probe == run_adb_command(adb_path, probe_command(package_name), device_id, listed)
    IN  IF ~r.ok
        THEN Result(FALSE, r.msg, <<>>, r.calls, "")
        ELSE IF launched(TextOf(r.msg))
        THEN Result(TRUE, Msg("Attempting to open app '{}'.", <<package_name>>), <<>>, r.calls, "")
        ELSE IF probe.ok /\ contains(TextOf(probe.msg), package_name)
        THEN Result(FALSE,
                    Msg("App '{}' found, but could not be launched via monkey. Output: {}",
                        <<package_name, TextOf(r.msg)>>),
                    <<>>, r.calls \o probe.calls, "")
        ELSE Result(FALSE,
                    Msg("Failed to open app '{}'. It might not be installed or launchable. ADB Output: {}",
                        <<package_name, TextOf(r.msg)>>),
                    <<>>, r.calls \o probe.calls, "")

open_app(adb_path, package_name, device_id) ==
    { open_app_given(adb_path, package_name, device_id, monkey, listed)
      : monkey \in AdbOutcomes(monkey_command(package_name)),
        listed \in AdbOutcomes(probe_command(package_name)) }

simulate_input_tap(adb_path, x, y, device_id) ==
    run_adb(adb_path, <<lit_shell, lit_input, lit_tap, int_str(x), int_str(y)>>, device_id)

simulate_input_swipe(adb_path, x1, y1, x2, y2, duration_ms, device_id) ==
    run_adb(adb_path,
            <<lit_shell, lit_input, lit_swipe,
              int_str(x1), int_str(y1), int_str(x2), int_str(y2), int_str(duration_ms)>>,
            device_id)

\* simulate_input_text when its adb call ends as given
simulate_input_text_given(adb_path, text_to_type, device_id, outcome) ==
    LET escaped_text == replace_char(text_to_type, "'", lit_quote_escaped)
    IN  run_adb_command(adb_path, <<lit_shell, lit_input, lit_text, escaped_text>>, device_id, outcome)

simulate_input_text(adb_path, text_to_type, device_id) ==
    { simulate_input_text_given(adb_path, text_to_type, device_id, outcome)
      : outcome \in AdbOutcomes(<<lit_shell, lit_input, lit_text>>) }

\* the index of the last "/" of a path, 0 when it has none
last_slash(p) ==
    IF \E i \in 1..Len(p) : p[i] = "/"
    THEN CHOOSE i \in 1..Len(p) : p[i] = "/" /\ \A j \in (i + 1)..Len(p) : p[j] # "/"
    ELSE 0

RECURSIVE rstrip_slash(_)
rstrip_slash(p) ==
    IF p # <<>> /\ p[Len(p)] = "/" THEN rstrip_slash(SubSeq(p, 1, Len(p) - 1)) ELSE p

\* os.path.dirname
dirname(p) ==
    LET head == SubSeq(p, 1, last_slash(p))
    IN  IF head # <<>> /\ (\E i \in 1..Len(head) : head[i] # "/")
        THEN rstrip_slash(head)
        ELSE head

\* what the filesystem answers for the local directory of a screenshot: it
\* exists, it is missing and os.makedirs creates it, it is missing and
\* os.makedirs raises
LocalDirKinds ==
    {"exists", "created", "makedirs_raises"}

\* the end of take_screenshot_android that reports a failed cleanup
saved_if_removed(local_save_path, rm) ==
    IF rm.ok
    THEN Result(TRUE, Msg("Screenshot saved to {}", <<local_save_path>>), <<>>, rm.calls, "")
    ELSE Result(FALSE, rm.msg, <<>>, rm.calls, "")

\* lines 207-211: the remote cleanup, whose result is dropped, and the return
saved(local_save_path, rm) ==
    Result(TRUE, Msg("Screenshot saved to {}", <<local_save_path>>), <<>>, rm.calls, "")

\* take_screenshot_android that removes the remote file also after a failed pull
take_screenshot_android_cleaning(adb_path, local_save_path, device_sdcard_path, device_id, captured, dir, pulled, removed) ==
    LET cap  == run_adb_command(adb_path, <<lit_shell, lit_screencap, device_sdcard_path>>,
                                device_id, captured)
        pull == run_adb_command(adb_path, <<lit_pull, device_sdcard_path, local_save_path>>,
                                device_id, pulled)
        rm   == run_adb_command(adb_path, <<lit_shell, lit_rm, device_sdcard_path>>,
                                device_id, removed)
        local_dir == dirname(local_save_path)
        fs   == IF local_dir = <<>> THEN <<>>
                ELSE IF dir = "exists" THEN <<Call("os.path.exists", <<local_dir>>)>>
                ELSE <<Call("os.path.exists", <<local_dir>>), Call("os.makedirs", <<local_dir>>)>>
    IN  IF ~cap.ok
        THEN Result(FALSE, Wrap("Failed to take screenshot on device: {}", <<>>, cap.msg),
                    <<>>, cap.calls, "")
        ELSE IF local_dir # <<>> /\ dir = "makedirs_raises"
        THEN Result(FALSE, Msg("", <<>>), <<>>, cap.calls \o fs, "OSError")
        ELSE IF ~pull.ok
        THEN Result(FALSE,
                    Wrap("Failed to pull screenshot from device ({}) to {}: {}",
                         <<device_sdcard_path, local_save_path>>, pull.msg),
                    <<>>, cap.calls \o fs \o pull.calls \o rm.calls, "")
        ELSE LET end == saved(local_save_path, rm)
             IN  Result(end.ok, end.msg, <<>>, cap.calls \o fs \o pull.calls \o end.calls, "")

\* take_screenshot_android when the capture, the local directory, the pull
\* and the remote cleanup end as given; a step that is not reached leaves no call
take_screenshot_android_given(adb_path, local_save_path, device_sdcard_path, device_id, captured, dir, pulled, removed) ==
    LET cap  == run_adb_command(adb_path, <<lit_shell, lit_screencap, device_sdcard_path>>,
                                device_id, captured)
        pull == run_adb_command(adb_path, <<lit_pull, device_sdcard_path, local_save_path>>,
                                device_id, pulled)
        rm   == run_adb_command(adb_path, <<lit_shell, lit_rm, device_sdcard_path>>,
                                device_id, removed)
        local_dir == dirname(local_save_path)
        fs   == IF local_dir = <<>> THEN <<>>
                ELSE IF dir = "exists" THEN <<Call("os.path.exists", <<local_dir>>)>>
                ELSE <<Call("os.path.exists", <<local_dir>>), Call("os.makedirs", <<local_dir>>)>>
    IN  IF ~cap.ok
        THEN Result(FALSE, Wrap("Failed to take screenshot on device: {}", <<>>, cap.msg),
                    <<>>, cap.calls, "")
        ELSE IF local_dir # <<>> /\ dir = "makedirs_raises"
        THEN Result(FALSE, Msg("", <<>>), <<>>, cap.calls \o fs, "OSError")
        ELSE IF ~pull.ok
        THEN Result(FALSE,
                    Wrap("Failed to pull screenshot from device ({}) to {}: {}",
                         <<device_sdcard_path, local_save_path>>, pull.msg),
                    <<>>, cap.calls \o fs \o pull.calls, "")
        ELSE LET end == saved(local_save_path, rm)
             IN  Result(end.ok, end.msg, <<>>, cap.calls \o fs \o pull.calls \o end.calls, "")

take_screenshot_android(adb_path, local_save_path, device_sdcard_path, device_id) ==
    { take_screenshot_android_given(adb_path, local_save_path, device_sdcard_path, device_id,
                                    captured, dir, pulled, removed)
      : captured \in AdbOutcomes(<<lit_shell, lit_screencap, device_sdcard_path>>),
        dir \in LocalDirKinds,
        pulled \in AdbOutcomes(<<lit_pull, device_sdcard_path, local_save_path>>),
        removed \in AdbOutcomes(<<lit_shell, lit_rm, device_sdcard_path>>) }

(***************************************************************************)
(* jarvis_ui/main_window.py: JarvisLauncher                                *)
(*                                                                         *)
(* The methods below work on a record m of the launcher while one command  *)
(* is processed: the two backend handles (win, droid), the number of       *)
(* automator instances constructed so far (ids), the text of the output    *)
(* area as its lines (log), the construction attempts, backend calls and   *)
(* external calls made for this command (ev) and the exception that        *)
(* escaped, if any (raised).  A method returns the set of records it can   *)
(* end in, one for each outcome of the external calls it makes.            *)
(***************************************************************************)
\* the attribute was never assigned: JarvisLauncher.__init__ sets no handle
NoAttr ==
    -1

\* the attribute holds None
None ==
    0

\* whether a handle holds an automator instance
Loaded(handle) ==
    handle > None

\* the text init_ui puts into the output area
Placeholder ==
    Msg("Command history or responses will appear here.", <<>>)

\* an attempt to import and construct an automator, and how it ended
Construct(backend, outcome) ==
    [ev |-> "construct", who |-> backend, op |-> outcome, args |-> <<>>]

\* a call of an automator method
BackendCall(backend, method, arguments) ==
    [ev |-> "call", who |-> backend, op |-> method, args |-> arguments]

\* a subprocess or filesystem call made by an automator
External(backend, call) ==
    [ev |-> "external", who |-> backend, op |-> call.fn, args |-> call.argv]

Externals(backend, calls) ==
    [i \in 1..Len(calls) |-> External(backend, calls[i])]

\* the names QTextHtmlParser::lookupElement knows, among those the typed
\* lines use
HtmlElements ==
    {<<"b">>, <<"i">>}

\* the text of a line's fields, in the order they are written
RECURSIVE Flat(_)
Flat(values) ==
    IF values = <<>> THEN <<>> ELSE Head(values) \o Flat(Tail(values))

\* the first position from which a character of the set occurs, 0 if none
first_of(text, from, chars) ==
    IF \E i \in from..Len(text) : text[i] \in chars
    THEN CHOOSE i \in from..Len(text) :
             text[i] \in chars /\ \A j \in from..(i - 1) : text[j] \notin chars
    ELSE 0

\* Qt::mightBeRichText, by which QTextEdit.setText guesses the format: the
\* first "<" of the first line opens a tag whose name is an HTML element
mightBeRichText(text) ==
    LET open  == first_of(text, 1, {"<", "\n"})
        close == IF open = 0 THEN 0 ELSE first_of(text, open + 1, {">"})
    IN  /\ open > 0
        /\ text[open] = "<"
        /\ close > 0
        /\ lower(SubSeq(text, open + 1, close - 1)) \in HtmlElements

\* the characters the HTML import keeps of a text: tags and line breaks
\* between the words are not part of the document's plain text
RECURSIVE plain_of_html(_)
plain_of_html(text) ==
    IF text = <<>> THEN <<>>
    ELSE IF Head(text) = "<" /\ first_of(text, 2, {">"}) > 0
         THEN plain_of_html(SubSeq(text, first_of(text, 2, {">"}) + 1, Len(text)))
         ELSE IF Head(text) = "\n" THEN plain_of_html(Tail(text))
              ELSE <<Head(text)>> \o plain_of_html(Tail(text))

\* lines 319 and 313: output_area.setText(current_log + line), as
\* toPlainText() reads it back.  setText takes the text as HTML when its
\* first line might be rich text, and as plain text otherwise; the first
\* line is still open while the area is empty or holds the one paragraph of
\* an HTML document, and the HTML document is again one paragraph
setText(current_log, line) ==
    LET unbroken == \A i \in 1..Len(current_log) : current_log[i].tpl = <<"{html}">>
        held     == IF current_log = <<>> THEN <<>> ELSE Flat(current_log[1].args)
    IN  IF unbroken /\ mightBeRichText(Flat(line.args))
        THEN <<[tpl |-> <<"{html}">>, args |-> <<held \o plain_of_html(Flat(line.args))>>]>>
        ELSE Append(current_log, line)

log_message(m, message) ==
    LET current_log == IF m.log = <<Placeholder>> THEN <<>> ELSE m.log
    IN  [m EXCEPT !.log = setText(current_log, Wrap("{timestamp} - {}\n", <<>>, message))]

\* how "from jarvis_utils... import ..." can end: the module is imported, it
\* is missing, importing it raises something else
ImportOutcomes ==
    {"ok", "ImportError", "Exception"}

\* lines 111-120: the try block of load_windows_automator
construct_windows(m) ==
    { IF imp = "ok"
      THEN log_message([m EXCEPT !.win = m.ids + 1, !.ids = m.ids + 1,
                                 !.ev = Append(@, Construct("windows", "ok"))],
                       Msg("Jarvis: WindowsAutomator loaded.", <<>>))
      ELSE IF imp = "ImportError"
      THEN [log_message([m EXCEPT !.ev = Append(@, Construct("windows", "ImportError"))],
                        Msg("Jarvis Error: Could not import WindowsAutomator module.", <<>>))
            EXCEPT !.win = None]
      ELSE [log_message([m EXCEPT !.ev = Append(@, Construct("windows", "Exception"))],
                        Msg("Jarvis Error: Failed to initialize WindowsAutomator: {}", <<ExcText>>))
            EXCEPT !.win = None]
      : imp \in ImportOutcomes }

\* load_windows_automator without its check of the handle
load_windows_automator_unguarded(m) ==
    construct_windows(m)

load_windows_automator(m) ==
    IF m.win = NoAttr \/ m.win = None
    THEN construct_windows(m)
    ELSE {m}

\* lines 125-144: the try block of load_android_automator
construct_android(m) ==
    UNION {
      IF imp = "ok"
      THEN { IF init.raised = ""
             THEN log_message([m EXCEPT !.droid = m.ids + 1, !.ids = m.ids + 1,
                                        !.ev = Append(@, Construct("android", "ok"))
                                               \o Externals("android", init.calls)],
                              Msg("Jarvis: AndroidAutomator loaded. Initializing ADB connection...", <<>>))
             ELSE [log_message([m EXCEPT !.ev = Append(@, Construct("android", "raised"))
                                                \o Externals("android", init.calls)],
                               Msg("Jarvis Error: Failed to initialize AndroidAutomator: {}", <<ExcText>>))
                   EXCEPT !.droid = None]
             : init \in AndroidAutomator_init(lit_adb) }
      ELSE IF imp = "ImportError"
      THEN { [log_message([m EXCEPT !.ev = Append(@, Construct("android", "ImportError"))],
                          Msg("Jarvis Error: Could not import AndroidAutomator module.", <<>>))
              EXCEPT !.droid = None] }
      ELSE { [log_message([m EXCEPT !.ev = Append(@, Construct("android", "Exception"))],
                          Msg("Jarvis Error: Failed to initialize AndroidAutomator: {}", <<ExcText>>))
              EXCEPT !.droid = None] }
      : imp \in ImportOutcomes }

\* load_android_automator that constructs only while the attribute is unset
load_android_automator_once(m) ==
    IF m.droid = NoAttr
    THEN construct_android(m)
    ELSE {m}

load_android_automator(m) ==
    IF m.droid = NoAttr \/ m.droid = None
    THEN construct_android(m)
    ELSE {m}

\* a backend method was called with these arguments and ended as r: the
\* call and its external calls are recorded, and an exception that escaped
\* the method escapes the handler
invoke(m, backend, method, arguments, r) ==
    [m EXCEPT !.ev = Append(@, BackendCall(backend, method, arguments))
                     \o Externals(backend, r.calls),
              !.raised = r.raised]

\* the handler logs the method's message under a prefix, unless the method raised
report(m, backend, method, arguments, r, prefix) ==
    IF r.raised # ""
    THEN invoke(m, backend, method, arguments, r)
    ELSE log_message(invoke(m, backend, method, arguments, r), Wrap(prefix, <<>>, r.msg))

\* the application name and target of "open ...": lines 149-168
open_target(parts) ==
    LET app_name_parts == Tail(parts)
        on_index == index_of(app_name_parts, lit_on)
        names_os == /\ in_list(lit_on, app_name_parts)
                    /\ on_index < Len(app_name_parts)
                    /\ lower(app_name_parts[on_index + 1]) \in {lit_android, lit_windows}
    IN  IF names_os
        THEN [target_os |-> lower(app_name_parts[on_index + 1]),
              app_name  |-> join(lit_space, SubSeq(app_name_parts, 1, on_index - 1))]
        ELSE [target_os |-> lit_windows, app_name |-> join(lit_space, app_name_parts)]

handle_open_command(m, parts, command_text) ==
    LET t == open_target(parts)
    IN  IF t.app_name = <<>>
        THEN { log_message(m, Msg("Jarvis: No application name specified for 'open' command.", <<>>)) }
        ELSE IF t.target_os = lit_windows
        THEN UNION { IF Loaded(w.win)
                     THEN { report(w, "windows", "open_application", <<t.app_name>>, r, "Jarvis (Win): {}")
                            : r \in open_application(t.app_name) }
                     ELSE { log_message(w, Msg("Jarvis: WindowsAutomator not available/loaded.", <<>>)) }
                     : w \in load_windows_automator(m) }
        ELSE UNION { IF Loaded(d.droid)
                     THEN { report(log_message(d, Msg("Jarvis (Droid): Attempting to open '{}'. (Note: This should be a package name for Android).",
                                                      <<t.app_name>>)),
                                   "android", "open_app", <<t.app_name>>, r, "Jarvis (Droid): {}")
                            : r \in open_app(lit_adb, t.app_name, <<>>) }
                     ELSE { log_message(d, Msg("Jarvis: AndroidAutomator not available/loaded, or no device connected.", <<>>)) }
                     : d \in load_android_automator(m) }

RECURSIVE log_items(_, _)
\* for item in result: self.log_message(f"  - {item}")
log_items(m, items) ==
    IF items = <<>> THEN m
    ELSE log_items(log_message(m, Msg("  - {}", <<Head(items)>>)), Tail(items))

handle_list_command(m, parts) ==
    LET dir_path == join(lit_space, Tail(parts))
    IN  UNION { IF Loaded(w.win)
                THEN { IF r.ok
                       THEN log_items(log_message(invoke(w, "windows", "list_directory_contents", <<dir_path>>, r),
                                                  Msg("Jarvis (Win): Contents of '{}':", <<dir_path>>)),
                                      r.items)
                       ELSE report(w, "windows", "list_directory_contents", <<dir_path>>, r, "Jarvis (Win): {}")
                       : r \in list_directory_contents(dir_path) }
                ELSE { log_message(w, Msg("Jarvis: WindowsAutomator not available/loaded.", <<>>)) }
                : w \in load_windows_automator(m) }

\* handle_system_command without the test of the loaded instance
handle_system_command_unguarded(m, parts) ==
    LET command_key == parts[2]
    IN  { report(w, "windows", "system_command", <<command_key>>,
                 system_command(command_key, FALSE), "Jarvis (Win): {}")
          : w \in load_windows_automator(m) }

handle_system_command(m, parts) ==
    LET command_key == parts[2]
    IN  { IF Loaded(w.win)
          THEN report(w, "windows", "system_command", <<command_key>>,
                      system_command(command_key, FALSE), "Jarvis (Win): {}")
          ELSE log_message(w, Msg("Jarvis: WindowsAutomator not available/loaded.", <<>>))
          : w \in load_windows_automator(m) }

\* the target and file name of "screenshot ...": lines 219-243; None is <<>>
screenshot_target(parts) ==
    LET arg1 == IF Len(parts) > 1 THEN lower(parts[2]) ELSE <<>>
        arg2 == IF Len(parts) > 2 THEN parts[3] ELSE <<>>
        target_os == IF arg1 = lit_android THEN lit_android ELSE lit_windows
        custom_filename == IF arg1 = lit_android \/ arg1 = lit_windows THEN arg2 ELSE arg1
        with_extension ==
            IF /\ custom_filename # <<>>
               /\ ~endswith(lower(custom_filename), lit_png)
               /\ ~endswith(lower(custom_filename), lit_jpg)
               /\ ~endswith(lower(custom_filename), lit_jpeg)
            THEN custom_filename \o lit_png
            ELSE custom_filename
    IN  [target_os |-> target_os,
         final_filename |-> IF with_extension # <<>> THEN with_extension
                            ELSE lit_jarvis_screenshot \o lit_underscore \o target_os \o lit_png]

handle_screenshot_command(m, parts) ==
    LET t == screenshot_target(parts)
    IN  IF t.target_os = lit_windows
        THEN { IF Loaded(w.win)
               THEN report(w, "windows", "take_screenshot", <<t.final_filename>>,
                           take_screenshot(t.final_filename), "Jarvis (Win): {}")
               ELSE log_message(w, Msg("Jarvis: WindowsAutomator not available/loaded.", <<>>))
               : w \in load_windows_automator(m) }
        ELSE UNION { IF Loaded(d.droid)
                     THEN { report(d, "android", "take_screenshot_android", <<t.final_filename>>, r,
                                   "Jarvis (Droid): {}")
                            : r \in take_screenshot_android(lit_adb, t.final_filename, lit_sdcard_path, <<>>) }
                     ELSE { log_message(d, Msg("Jarvis: AndroidAutomator not available/loaded, or no device connected.", <<>>)) }
                     : d \in load_android_automator(m) }

\* the duration "adb swipe" uses when the line gives none
default_duration ==
    300

\* the tap branch that hands the words to adb before it checks them
tap_unchecked(d, args) ==
    { log_message(invoke(d, "android", "simulate_input_tap", args, r),
                  Msg("Jarvis (Droid) Error: Invalid coordinates for tap. Usage: adb tap <x> <y>", <<>>))
      : r \in run_adb(lit_adb, <<lit_shell, lit_input, lit_tap>> \o args, <<>>) }

\* lines 288-294: "adb tap <x> <y>"
tap(d, args) ==
    IF is_int(args[1]) /\ is_int(args[2])
    THEN { log_message(invoke(d, "android", "simulate_input_tap",
                              <<int_str(to_int(args[1])), int_str(to_int(args[2]))>>, r),
                       Wrap("Jarvis (Droid) Tap at ({},{}): {}",
                            <<int_str(to_int(args[1])), int_str(to_int(args[2]))>>, r.msg))
           : r \in simulate_input_tap(lit_adb, to_int(args[1]), to_int(args[2]), <<>>) }
    ELSE { log_message(d, Msg("Jarvis (Droid) Error: Invalid coordinates for tap. Usage: adb tap <x> <y>", <<>>)) }

handle_adb_command(m, parts) ==
    UNION { IF ~Loaded(d.droid)
            THEN { log_message(d, Msg("Jarvis: AndroidAutomator not available/loaded, or no device connected.", <<>>)) }
            ELSE LET sub_command == parts[2]
                     args == SubSeq(parts, 3, Len(parts))
                 IN  IF sub_command = lit_devices
                     THEN { IF r.ok
                            THEN IF r.items # <<>>
                                 THEN log_items(log_message(invoke(d, "android", "list_connected_devices", <<>>, r),
                                                            Msg("Jarvis (Droid) Connected Devices/Emulators:", <<>>)),
                                                r.items)
                                 ELSE log_message(invoke(d, "android", "list_connected_devices", <<>>, r),
                                                  Msg("Jarvis (Droid): No devices found connected via ADB.", <<>>))
                            ELSE report(d, "android", "list_connected_devices", <<>>, r,
                                        "Jarvis (Droid) Error listing devices: {}")
                            : r \in list_connected_devices(lit_adb) }
                     ELSE IF sub_command = lit_tap /\ Len(args) = 2
                     THEN tap(d, args)
                     ELSE IF sub_command = lit_swipe /\ Len(args) >= 4
                     THEN IF /\ \A i \in 1..4 : is_int(args[i])
                             /\ (Len(args) > 4 => is_int(args[5]))
                          THEN LET duration == IF Len(args) > 4 THEN to_int(args[5]) ELSE default_duration
                                   shown == <<int_str(to_int(args[1])), int_str(to_int(args[2])),
                                              int_str(to_int(args[3])), int_str(to_int(args[4])),
                                              int_str(duration)>>
                               IN  { log_message(invoke(d, "android", "simulate_input_swipe", shown, r),
                                                 Wrap("Jarvis (Droid) Swipe from ({},{}) to ({},{}) duration {}ms: {}",
                                                      shown, r.msg))
                                     : r \in simulate_input_swipe(lit_adb, to_int(args[1]), to_int(args[2]),
                                                                  to_int(args[3]), to_int(args[4]), duration, <<>>) }
                          ELSE { log_message(d, Msg("Jarvis (Droid) Error: Invalid coordinates/duration for swipe. Usage: adb swipe <x1> <y1> <x2> <y2> [duration_ms]", <<>>)) }
                     ELSE IF sub_command = lit_text /\ args # <<>>
                     THEN LET text_to_type == join(lit_space, args)
                          IN  { log_message(invoke(d, "android", "simulate_input_text", <<text_to_type>>, r),
                                            Wrap("Jarvis (Droid) Text input '{}': {}", <<text_to_type>>, r.msg))
                                : r \in simulate_input_text(lit_adb, text_to_type, <<>>) }
                     ELSE { log_message(
                              log_message(d, Msg("Jarvis (Droid): Unknown ADB sub-command '{}' or incorrect arguments.",
                                                 <<sub_command>>)),
                              Msg("Supported ADB via UI: devices, tap <x> <y>, swipe <x1> <y1> <x2> <y2> [duration_ms], text <string to type>", <<>>)) }
            : d \in load_android_automator(m) }

\* lines 84-86: the Windows backend is loaded before the command is handled
preload_windows(m, action, command_text) ==
    IF /\ (\/ action \in {lit_list, lit_system}
           \/ (contains(action, lit_open) /\ ~contains(lower(command_text), lit_android)))
       /\ (m.win = NoAttr \/ m.win = None)
    THEN load_windows_automator(m)
    ELSE {m}

\* lines 89-91: the Android backend is loaded before the command is handled
preload_android(m, action, command_text) ==
    IF /\ (contains(lower(command_text), lit_android) \/ action = lit_adb)
       /\ (m.droid = NoAttr \/ m.droid = None)
    THEN load_android_automator(m)
    ELSE {m}

\* dispatch without the check that "open" has an argument
dispatch_open_unchecked(m, parts, command_text) ==
    LET action == parts[1]
    IN  IF action = lit_hello
        THEN { log_message(m, Msg("Jarvis: Hello there!", <<>>)) }
        ELSE IF action = lit_open
        THEN handle_open_command(m, parts, command_text)
        ELSE IF action = lit_list /\ Len(parts) > 1
        THEN handle_list_command(m, parts)
        ELSE IF action = lit_system /\ Len(parts) > 1
        THEN handle_system_command(m, parts)
        ELSE IF action = lit_screenshot
        THEN handle_screenshot_command(m, parts)
        ELSE IF action = lit_adb /\ Len(parts) > 1
        THEN handle_adb_command(m, parts)
        ELSE { log_message(m, Msg("Jarvis: Command '{}' not recognized or arguments missing.",
                                  <<command_text>>)) }

\* lines 94-107: the command handling
dispatch(m, parts, command_text) ==
    LET action == parts[1]
    IN  IF action = lit_hello
        THEN { log_message(m, Msg("Jarvis: Hello there!", <<>>)) }
        ELSE IF action = lit_open /\ Len(parts) > 1
        THEN handle_open_command(m, parts, command_text)
        ELSE IF action = lit_list /\ Len(parts) > 1
        THEN handle_list_command(m, parts)
        ELSE IF action = lit_system /\ Len(parts) > 1
        THEN handle_system_command(m, parts)
        ELSE IF action = lit_screenshot
        THEN handle_screenshot_command(m, parts)
        ELSE IF action = lit_adb /\ Len(parts) > 1
        THEN handle_adb_command(m, parts)
        ELSE { log_message(m, Msg("Jarvis: Command '{}' not recognized or arguments missing.",
                                  <<command_text>>)) }

process_ui_command(m, command_text) ==
    LET logged == log_message(m, Msg("User command: {}", <<command_text>>))
        parts  == split(lower(command_text))
    IN  IF parts = <<>>
        THEN {logged}
        ELSE UNION { UNION { dispatch(d, parts, command_text)
                             : d \in preload_android(w, parts[1], command_text) }
                     : w \in preload_windows(logged, parts[1], command_text) }

(***************************************************************************)
(* The command lines typed into the input field                            *)
(***************************************************************************)
w_Hello ==
    <<"H", "e", "l", "l", "o">>
w_chrome ==
    <<"c", "h", "r", "o", "m", "e">>
w_Chrome ==
    <<"C", "h", "r", "o", "m", "e">>
w_OPEN ==
    <<"O", "P", "E", "N">>
w_ON ==
    <<"O", "N">>
w_Android ==
    <<"A", "n", "d", "r", "o", "i", "d">>
w_package ==
    <<"C", "o", "m", ".", "A", "p", "p">>
w_studio ==
    <<"s", "t", "u", "d", "i", "o">>
w_linux ==
    <<"l", "i", "n", "u", "x">>
w_Docs ==
    <<"D", "o", "c", "s">>
w_reboot ==
    <<"r", "e", "b", "o", "o", "t">>
w_Shot ==
    <<"S", "h", "o", "t">>
w_ShotPNG ==
    <<"S", "h", "o", "t", ".", "P", "N", "G">>
w_path ==
    <<"o", "u", "t", "/", "S", "h", "o", "t", ".", "p", "n", "g">>
w_my_android ==
    <<"m", "y", "_", "a", "n", "d", "r", "o", "i", "d", ".", "p", "n", "g">>
w_tag ==
    <<"<", "b", ">">>
w_dance ==
    <<"d", "a", "n", "c", "e">>
w_reopen ==
    <<"r", "e", "o", "p", "e", "n">>
w_10 ==
    <<"1", "0">>
w_20 ==
    <<"2", "0">>
w_007 ==
    <<"0", "0", "7">>
w_x1 ==
    <<"x", "1">>
w_Hi ==
    <<"H", "i">>
w_its ==
    <<"i", "t", "'", "s">>
w_ADB ==
    <<"A", "D", "B">>

\* the lines as the words typed, one space between two words
w_slash_s ==
    <<"/", "s">>
w_slash_t ==
    <<"/", "t">>

TypedWords ==
    { <<lit_hello>>, <<w_Hello, lit_android>>,
      <<lit_open>>, <<lit_open, w_chrome>>, <<w_OPEN, w_Chrome>>,
      <<lit_open, w_Chrome, lit_on, lit_windows>>, <<lit_open, w_package, lit_on, lit_android>>,
      <<lit_open, w_chrome, w_ON, w_Android>>, <<lit_open, lit_on, lit_android>>,
      <<lit_open, lit_on>>, <<lit_open, lit_android>>,
      <<lit_open, lit_android, w_studio, lit_on, lit_windows>>,
      <<lit_open, lit_on, lit_on, lit_android>>, <<lit_open, w_chrome, lit_on, w_linux>>,
      <<lit_list>>, <<lit_list, w_Docs>>, <<lit_list, lit_android>>,
      <<lit_system>>, <<lit_system, lit_shutdown>>, <<lit_system, lit_restart>>,
      <<lit_system, w_reboot>>, <<lit_open, lit_shutdown, w_slash_s, w_slash_t, lit_one>>,
      <<lit_screenshot>>, <<lit_screenshot, lit_windows>>, <<lit_screenshot, lit_android>>,
      <<lit_screenshot, w_Shot>>, <<lit_screenshot, lit_windows, w_ShotPNG>>,
      <<lit_screenshot, lit_android, w_ShotPNG>>, <<lit_screenshot, lit_android, w_path>>,
      <<lit_screenshot, w_Shot, lit_android>>, <<lit_screenshot, w_my_android>>,
      <<lit_adb>>, <<lit_adb, lit_devices>>, <<w_ADB, lit_tap, w_10, w_20>>,
      <<lit_adb, lit_tap, w_x1, w_20>>, <<lit_adb, lit_tap, w_10>>,
      <<lit_adb, lit_swipe, w_10, w_20, w_20, w_10>>,
      <<lit_adb, lit_swipe, w_10, w_20, w_20, w_10, w_007>>,
      <<lit_adb, lit_swipe, w_10, w_20, w_20, w_x1>>,
      <<lit_adb, lit_swipe, w_10, w_20, w_20, w_10, w_x1>>,
      <<lit_adb, lit_text, w_Hi, w_its>>, <<lit_adb, lit_text>>, <<lit_adb, w_dance>>,
      <<w_dance>>, <<w_dance, lit_android>>, <<w_dance, w_chrome>>, <<w_reopen, w_chrome>>,
      <<w_tag>>, <<lit_space>> }

\* the text of the input field when Return is pressed; the last line is
\* two blanks, and one line is typed with blanks around and between its words
Lines ==
    { join(lit_space, words) : words \in TypedWords }
    \cup { lit_space \o lit_open \o lit_space \o lit_space \o w_Chrome \o lit_space }

(***************************************************************************)
(* The launcher as a state machine                                         *)
(***************************************************************************)
\* commands are taken while the output area holds at most MaxLog lines
MaxLog ==
    3

VARIABLES
    windows_automator_instance,   \* NoAttr, None or the instance's number
    android_automator_instance,   \* NoAttr, None or the instance's number
    output_area,                  \* the lines of the output area
    instances,                    \* automator instances constructed so far
    last,                         \* the command processed last and what it did
    unit                          \* an automator method called on its own, with its result

vars ==
    <<windows_automator_instance, android_automator_instance, output_area, instances, last,
      unit>>

\* no command processed yet
NoCommand ==
    [done |-> FALSE, text |-> <<>>, parts |-> <<>>, ev |-> <<>>, raised |-> "", said |-> <<>>,
     win0 |-> NoAttr, droid0 |-> NoAttr]

Init ==
    /\ windows_automator_instance = NoAttr
    /\ android_automator_instance = NoAttr
    /\ output_area = <<Placeholder>>
    /\ instances = 0
    /\ last = NoCommand
    /\ unit = [fn |-> "none"]

\* the launcher's fields as the record the methods work on
Launcher ==
    [win |-> windows_automator_instance, droid |-> android_automator_instance,
     ids |-> instances, log |-> output_area, ev |-> <<>>, raised |-> ""]

\* the lines a command added to the output area
Added(before, after) ==
    IF before = <<Placeholder>> THEN after ELSE SubSeq(after, Len(before) + 1, Len(after))

\* handle_command: Return pressed with command_text in the input field
handle_command(command_text) ==
    /\ command_text # <<>>
    /\ Len(output_area) <= MaxLog
    /\ \E m \in process_ui_command(Launcher, command_text) :
          /\ windows_automator_instance' = m.win
          /\ android_automator_instance' = m.droid
          /\ output_area' = m.log
          /\ instances' = m.ids
          /\ last' = [done |-> TRUE, text |-> command_text,
                      parts |-> split(lower(command_text)), ev |-> m.ev, raised |-> m.raised,
                      said |-> Added(output_area, m.log),
                      win0 |-> windows_automator_instance, droid0 |-> android_automator_instance]
    /\ UNCHANGED unit

Next ==
    \E command_text \in Lines : handle_command(command_text)

Spec ==
    Init /\ [][Next]_vars

(***************************************************************************)
(* The automator methods called on their own, as the unit tests call them  *)
(***************************************************************************)
\* standard outputs and standard errors of an adb call, with and without
\* surrounding whitespace
UnitStdouts ==
    {<<>>, <<"\n">>, OutText, MonkeyInjected, OneDevice}

UnitStderrs ==
    {<<>>, <<"\n">>, ErrText}

\* every outcome of one subprocess.run call
UnitOutcomes ==
    {ProcExit0(out) : out \in UnitStdouts}
    \cup {ProcNonZero(out, err) : out \in UnitStdouts, err \in UnitStderrs}
    \cup {ProcNotFound, ProcOther}

\* the adb arguments and the device a call is made for
UnitCommands ==
    {<<lit_devices>>, <<lit_shell, lit_rm, lit_sdcard_path>>, <<lit_shell, lit_input, lit_text, w_its>>}

UnitDevices ==
    {<<>>, <<"e", "m", "1">>}

\* automator._run_adb_command(command_parts, device_id)
call_run_adb_command ==
    \E command_parts \in UnitCommands, device_id \in UnitDevices, outcome \in UnitOutcomes :
        /\ unit' = [fn |-> "_run_adb_command", command_parts |-> command_parts,
                    device_id |-> device_id, outcome |-> outcome,
                    result |-> run_adb_command(lit_adb, command_parts, device_id, outcome)]
        /\ UNCHANGED <<windows_automator_instance, android_automator_instance, output_area,
                       instances, last>>

\* AndroidAutomator(adb_path="adb")
call_AndroidAutomator ==
    \E version \in VersionOutcomes,
       devices \in AdbOutcomes(<<lit_devices>>) \cup {ProcExit0(<<>>), ProcExit0(<<"\n">>)} :
        /\ unit' = [fn |-> "AndroidAutomator", version |-> version, devices |-> devices,
                    result |-> check_adb_device(lit_adb, version, devices)]
        /\ UNCHANGED <<windows_automator_instance, android_automator_instance, output_area,
                       instances, last>>

\* automator.open_app(package_name, device_id)
call_open_app ==
    \E package_name \in {w_package}, device_id \in UnitDevices :
      \E monkey \in AdbOutcomes(monkey_command(package_name)) \cup {ProcExit0(<<"\n">>)},
         listed \in AdbOutcomes(probe_command(package_name))
                    \cup {ProcExit0(PackagePrefix \o w_package \o <<".", "x", "\n">>),
                          ProcExit0(PackagePrefix \o w_chrome \o <<"\n">>)} :
        /\ unit' = [fn |-> "open_app", package_name |-> package_name, device_id |-> device_id,
                    monkey |-> monkey, listed |-> listed,
                    result |-> open_app_given(lit_adb, package_name, device_id, monkey, listed)]
        /\ UNCHANGED <<windows_automator_instance, android_automator_instance, output_area,
                       instances, last>>

\* automator.take_screenshot_android(local_save_path)
call_take_screenshot_android ==
    \E local_save_path \in {w_ShotPNG, w_path}, dir \in LocalDirKinds :
      \E captured \in {ProcExit0(<<>>), ProcNonZero(OutText, ErrText)},
         pulled \in {ProcExit0(OutText), ProcNotFound, ProcNonZero(OutText, ErrText)},
         removed \in {ProcExit0(<<>>), ProcOther, ProcNonZero(OutText, ErrText)} :
        /\ unit' = [fn |-> "take_screenshot_android", local_save_path |-> local_save_path,
                    captured |-> captured, dir |-> dir, pulled |-> pulled, removed |-> removed,
                    result |-> take_screenshot_android_given(lit_adb, local_save_path, lit_sdcard_path,
                                                             <<>>, captured, dir, pulled, removed)]
        /\ UNCHANGED <<windows_automator_instance, android_automator_instance, output_area,
                       instances, last>>

\* automator.system_command(command_key, confirmation_required)
call_system_command ==
    \E command_key \in {lit_shutdown, lit_restart, w_reboot, lit_shutdown_cmd, <<"S">> \o Tail(lit_shutdown), <<>>},
       confirmation_required \in BOOLEAN :
        /\ unit' = [fn |-> "system_command", command_key |-> command_key,
                    confirmation_required |-> confirmation_required,
                    result |-> system_command(command_key, confirmation_required)]
        /\ UNCHANGED <<windows_automator_instance, android_automator_instance, output_area,
                       instances, last>>

\* automator.list_directory_contents(dir_path)
call_list_directory_contents ==
    \E dir_path \in {w_Docs, <<".">>}, kind \in PathKinds,
       entries \in DirListings \cup {<< <<"b">>, <<"a">>, <<"b">> >>} :
        /\ unit' = [fn |-> "list_directory_contents", dir_path |-> dir_path, kind |-> kind,
                    entries |-> entries,
                    result |-> list_directory_contents_given(dir_path, kind, entries)]
        /\ UNCHANGED <<windows_automator_instance, android_automator_instance, output_area,
                       instances, last>>

\* automator.list_connected_devices()
call_list_connected_devices ==
    \E outcome \in AdbOutcomes(<<lit_devices>>)
                    \cup {ProcExit0(<<>>), ProcNotFound,
                          ProcExit0(OneDevice \o <<" ", "\t", "\n", "T", "A", "2">>),
                          ProcExit0(<<"\n">> \o TwoDevices \o <<" ", "x", "\t", "\t", "y">>)} :
        /\ unit' = [fn |-> "list_connected_devices", outcome |-> outcome,
                    ran |-> run_adb_command(lit_adb, <<lit_devices>>, <<>>, outcome),
                    result |-> list_connected_devices_given(lit_adb, outcome)]
        /\ UNCHANGED <<windows_automator_instance, android_automator_instance, output_area,
                       instances, last>>

\* automator.simulate_input_text(text_to_type, device_id)
call_simulate_input_text ==
    \E text_to_type \in {w_its, w_Hi, <<"'">>, <<"a", "'", "'", "b", "'">>,
                          <<"$", "'", " ", "\\", "\"", "'">>, <<>>},
       device_id \in UnitDevices,
       outcome \in {ProcExit0(<<>>), ProcNotFound, ProcNonZero(OutText, ErrText)} :
        /\ unit' = [fn |-> "simulate_input_text", text_to_type |-> text_to_type,
                    device_id |-> device_id, outcome |-> outcome,
                    result |-> simulate_input_text_given(lit_adb, text_to_type, device_id, outcome)]
        /\ UNCHANGED <<windows_automator_instance, android_automator_instance, output_area,
                       instances, last>>

\* automator.open_application(app_name)
call_open_application ==
    \E app_name \in {w_Chrome, w_chrome, w_package, <<"a", " ", "b">>, <<>>},
       oc \in PopenOutcomes :
        /\ unit' = [fn |-> "open_application", app_name |-> app_name, oc |-> oc,
                    result |-> open_application_given(app_name, oc)]
        /\ UNCHANGED <<windows_automator_instance, android_automator_instance, output_area,
                       instances, last>>

NextUnit ==
    \/ call_run_adb_command
    \/ call_AndroidAutomator
    \/ call_open_app
    \/ call_take_screenshot_android
    \/ call_system_command
    \/ call_list_directory_contents
    \/ call_list_connected_devices
    \/ call_simulate_input_text
    \/ call_open_application

SpecUnit ==
    Init /\ [][NextUnit]_vars

(***************************************************************************)
(* Reading a state: the command processed last                             *)
(***************************************************************************)
\* the words of the last command, lower-cased as the dispatcher matches them
LastWords ==
    last.parts

\* the words of the last command as typed
TypedLast ==
    split(last.text)

\* the events of one kind the last command caused at a backend
EventsOf(kind, backend) ==
    SelectSeq(last.ev, LAMBDA e : e.ev = kind /\ e.who = backend)

\* the constructor of the backend was invoked while the last command was processed
ConstructorInvoked(backend) ==
    \E i \in 1..Len(last.ev) :
        /\ last.ev[i].ev = "construct"
        /\ last.ev[i].who = backend
        /\ last.ev[i].op \in {"ok", "raised"}

\* the number of construction attempts of the last command that ended as given
Attempts(backend, outcomes) ==
    Len(SelectSeq(last.ev, LAMBDA e : e.ev = "construct" /\ e.who = backend /\ e.op \in outcomes))

\* a method of the backend was called while the last command was processed
Called(backend) ==
    EventsOf("call", backend) # <<>>

\* the last command called exactly this one method of the backend, once
CalledOnly(backend, method) ==
    /\ Len(EventsOf("call", backend)) = 1
    /\ EventsOf("call", backend)[1].op = method

\* the last command logged a line built from the template
Said(template) ==
    \E i \in 1..Len(last.said) : HasTemplate(last.said[i], template)

\* the number of lines the last command logged from one of the templates
SaidCount(templates) ==
    Len(SelectSeq(last.said, LAMBDA line : \E t \in templates : HasTemplate(line, t)))

NotRecognized ==
    "Jarvis: Command '{}' not recognized or arguments missing."

NoAppName ==
    "Jarvis: No application name specified for 'open' command."

RecognizedActions ==
    {lit_hello, lit_open, lit_list, lit_system, lit_screenshot, lit_adb}

HandleOf(backend) ==
    IF backend = "windows" THEN windows_automator_instance ELSE android_automator_instance

HandleBefore(backend) ==
    IF backend = "windows" THEN last.win0 ELSE last.droid0

Backends ==
    {"windows", "android"}

(***************************************************************************)
(* C1                                                                      *)
(***************************************************************************)
\* C1: a line whose first word, lower-cased, is none of hello, open, list,
\* system, screenshot, adb is answered with the 'not recognized' message and
\* invokes the constructor of neither backend.
C1_UnrecognizedConstructsNothing ==
    (last.done /\ LastWords # <<>> /\ LastWords[1] \notin RecognizedActions)
        => /\ Said(NotRecognized)
           /\ ~ConstructorInvoked("windows")
           /\ ~ConstructorInvoked("android")

(***************************************************************************)
(* C2                                                                      *)
(***************************************************************************)
\* the last command is "open <x> on <os>" with one or more words x
OpenOn(os) ==
    /\ Len(LastWords) >= 4
    /\ LastWords[1] = lit_open
    /\ LastWords[Len(LastWords) - 1] = lit_on
    /\ LastWords[Len(LastWords)] = os

\* the last command is "open <x>" with one or more words x and no "on"
BareOpen ==
    /\ Len(LastWords) >= 2
    /\ LastWords[1] = lit_open
    /\ ~in_list(lit_on, Tail(LastWords))

\* C2: "open x on android" constructs and calls only the Android backend
\* (open_app); "open x on windows" and bare "open x" construct and call only
\* the Windows backend (open_application).
C2_OpenRoutesExclusively ==
    last.done =>
        /\ OpenOn(lit_android) =>
              /\ ~ConstructorInvoked("windows") /\ ~Called("windows")
              /\ Loaded(android_automator_instance) => CalledOnly("android", "open_app")
        /\ (OpenOn(lit_windows) \/ BareOpen) =>
              /\ ~ConstructorInvoked("android") /\ ~Called("android")
              /\ Loaded(windows_automator_instance) => CalledOnly("windows", "open_application")

(***************************************************************************)
(* C3                                                                      *)
(***************************************************************************)
\* C3: a handle that holds an instance is neither reset nor replaced by a
\* later command, and every instance ever constructed is still held by its
\* handle: each backend is successfully constructed at most once per run.
C3_HandlesOnlyGetConstructed ==
    /\ instances = Cardinality({b \in Backends : Loaded(HandleOf(b))})
    /\ last.done =>
          \A b \in Backends :
              /\ Loaded(HandleBefore(b)) =>
                    HandleOf(b) = HandleBefore(b) /\ Attempts(b, {"ok"}) = 0
              /\ Attempts(b, {"ok"}) <= 1

\* a command routed to Windows was processed while the Windows handle held
\* an instance
C3_Witness ==
    /\ last.done
    /\ Loaded(last.win0)
    /\ Called("windows")
    /\ windows_automator_instance = last.win0

(***************************************************************************)
(* C4                                                                      *)
(***************************************************************************)
ConstructionFailures ==
    {"ImportError", "Exception", "raised"}

ConstructionErrors(backend) ==
    IF backend = "windows"
    THEN {"Jarvis Error: Could not import WindowsAutomator module.",
          "Jarvis Error: Failed to initialize WindowsAutomator: {}"}
    ELSE {"Jarvis Error: Could not import AndroidAutomator module.",
          "Jarvis Error: Failed to initialize AndroidAutomator: {}"}

\* the dispatcher routes the last command to the backend: it is handled by a
\* handler that needs the backend
RoutedTo(backend) ==
    /\ LastWords # <<>>
    /\ IF backend = "windows"
       THEN \/ LastWords[1] \in {lit_list, lit_system}
            \/ LastWords[1] = lit_open /\ Len(LastWords) > 1
                 /\ open_target(LastWords).app_name # <<>>
                 /\ open_target(LastWords).target_os = lit_windows
            \/ LastWords[1] = lit_screenshot
                 /\ screenshot_target(LastWords).target_os = lit_windows
       ELSE \/ LastWords[1] = lit_adb
            \/ LastWords[1] = lit_open /\ Len(LastWords) > 1
                 /\ open_target(LastWords).app_name # <<>>
                 /\ open_target(LastWords).target_os = lit_android
            \/ LastWords[1] = lit_screenshot
                 /\ screenshot_target(LastWords).target_os = lit_android

\* C4: a failed construction is caught (nothing escapes the loader), leaves
\* the handle None and logs one error line; a command routed to a backend
\* whose handle is None attempts the construction again, and a successful
\* attempt sets the handle.
C4_FailedConstructionIsRetried ==
    last.done =>
        \A b \in Backends :
            /\ SaidCount(ConstructionErrors(b)) = Attempts(b, ConstructionFailures)
            /\ (Attempts(b, ConstructionFailures) > 0 /\ ~Called(b)) => last.raised = ""
            /\ (Attempts(b, ConstructionFailures) > 0 /\ Attempts(b, {"ok"}) = 0)
                  => HandleOf(b) = None
            /\ (HandleBefore(b) = None /\ RoutedTo(b))
                  => Attempts(b, ConstructionFailures \cup {"ok"}) > 0
            /\ Attempts(b, {"ok"}) > 0 => Loaded(HandleOf(b))

\* the Android handle was None after a failed construction, and the command
\* processed last constructed the backend
C4_Witness ==
    /\ last.done
    /\ last.droid0 = None
    /\ RoutedTo("android")
    /\ Loaded(android_automator_instance)

(***************************************************************************)
(* C5                                                                      *)
(***************************************************************************)
\* C5: whatever the external calls of a command do, process_ui_command
\* returns without an exception escaping it and has appended a message to
\* the log.
C5_NoExceptionEscapes ==
    last.done => (last.raised = "" /\ last.said # <<>>)

(***************************************************************************)
(* C6                                                                      *)
(***************************************************************************)
\* the last command is open, list, system or adb with no further word
BareAction ==
    /\ Len(LastWords) = 1
    /\ LastWords[1] \in {lit_open, lit_list, lit_system, lit_adb}

\* the last command is "open on <os> ...": the application name is empty
EmptyAppName ==
    /\ Len(LastWords) >= 3
    /\ LastWords[1] = lit_open
    /\ LastWords[2] = lit_on
    /\ LastWords[3] \in {lit_android, lit_windows}

\* C6 as stated: a recognized action whose required arguments are missing,
\* the empty application name included, is answered with the 'not
\* recognized' message and raises nothing.
C6_MissingArgumentsNotRecognized ==
    (last.done /\ (BareAction \/ EmptyAppName))
        => (Said(NotRecognized) /\ last.raised = "")

\* C6 amended: open, list, system or adb with no further word is answered
\* with the 'not recognized' message; open with an empty application name is
\* answered with the 'No application name specified' message instead; either
\* way no backend method is called and nothing is raised.
C6_MissingArgumentsAnswered ==
    (last.done /\ (BareAction \/ EmptyAppName))
        => /\ BareAction => (Said(NotRecognized) /\ ~Said(NoAppName))
           /\ EmptyAppName => (Said(NoAppName) /\ ~Said(NotRecognized))
           /\ \A b \in Backends : ~Called(b)
           /\ last.raised = ""

\* "open on <os>" was processed and answered
C6_Witness ==
    /\ last.done
    /\ EmptyAppName
    /\ Said(NoAppName)

(***************************************************************************)
(* C7                                                                      *)
(***************************************************************************)
\* the methods whose first argument is text the user typed
TextMethods ==
    {"open_application", "open_app", "list_directory_contents", "simulate_input_text"}

ScreenshotMethods ==
    {"take_screenshot", "take_screenshot_android"}

\* the text is a run of words of the last command, spelled as typed
AsTyped(argument) ==
    \E i \in 1..Len(TypedLast), j \in 1..Len(TypedLast) :
        /\ i <= j
        /\ argument = join(lit_space, SubSeq(TypedLast, i, j))

\* the file name is the default one, or a word of the last command spelled as
\* typed, with ".png" appended or not
FileNameAsTyped(argument) ==
    \/ argument \in {lit_jarvis_screenshot \o lit_underscore \o os \o lit_png
                     : os \in {lit_windows, lit_android}}
    \/ \E i \in 1..Len(TypedLast) :
          argument \in {TypedLast[i], TypedLast[i] \o lit_png}

\* C7: the application or package name, the directory path, the text of
\* "adb text" and the screenshot file name reach the backend in the letter
\* case the user typed.
C7_ArgumentsKeepCase ==
    last.done =>
        \A i \in 1..Len(last.ev) :
            LET e == last.ev[i]
            IN  /\ (e.ev = "call" /\ e.op \in TextMethods) => AsTyped(e.args[1])
                /\ (e.ev = "call" /\ e.op \in ScreenshotMethods) => FileNameAsTyped(e.args[1])

(***************************************************************************)
(* C8                                                                      *)
(***************************************************************************)
Screenshot ==
    LastWords # <<>> /\ LastWords[1] = lit_screenshot

TextHasAndroid ==
    contains(lower(last.text), lit_android)

\* C8: a screenshot command whose text contains android calls only the
\* Android backend (take_screenshot_android), any other screenshot command
\* calls only the Windows backend (take_screenshot), and a backend the
\* command constructs is the one it calls.
C8_ScreenshotBackend ==
    (last.done /\ Screenshot) =>
        /\ TextHasAndroid =>
              /\ ~Called("windows")
              /\ Loaded(android_automator_instance)
                    => CalledOnly("android", "take_screenshot_android")
        /\ ~TextHasAndroid =>
              /\ ~Called("android")
              /\ Loaded(windows_automator_instance)
                    => CalledOnly("windows", "take_screenshot")
        /\ \A b \in Backends : Attempts(b, {"ok"}) > 0 => Called(b)

(***************************************************************************)
(* C9                                                                      *)
(***************************************************************************)
\* C9: constructing AndroidAutomator raises nothing, whatever the version
\* query and the device query do, and the availability check yields a
\* boolean.
C9_ConstructorNeverRaises ==
    unit.fn = "AndroidAutomator"
        => (unit.result.raised = "" /\ unit.result.ret \in BOOLEAN)

(***************************************************************************)
(* C10                                                                     *)
(***************************************************************************)
\* t is s without its leading and trailing whitespace
Stripped(s, t) ==
    /\ t # <<>> => (~is_space(t[1]) /\ ~is_space(t[Len(t)]))
    /\ \E i \in 0..Len(s) :
          /\ i + Len(t) <= Len(s)
          /\ SubSeq(s, i + 1, i + Len(t)) = t
          /\ \A k \in (1..i) \cup ((i + Len(t) + 1)..Len(s)) : is_space(s[k])

NotFoundShape ==
    "Error: ADB executable not found. Please ensure it's installed and in your PATH."

NonZeroShape ==
    "ADB Command Error: '{}' failed with: {}"

UnexpectedShape ==
    "An unexpected error occurred: {}"

\* C10: _run_adb_command raises nothing; on exit status 0 it returns True
\* with the stripped standard output; otherwise it returns False with a
\* message of exactly one of three shapes, chosen by the failure, and the
\* non-zero-exit message carries the stripped standard error, or the stripped
\* standard output when the standard error is empty.
C10_RunAdbCommandClassifies ==
    unit.fn = "_run_adb_command" =>
        LET r == unit.result
            o == unit.outcome
        IN  /\ r.raised = ""
            /\ o.kind = "exit0" => (r.ok /\ Stripped(o.stdout, TextOf(r.msg)))
            /\ o.kind # "exit0" =>
                  /\ ~r.ok
                  /\ Cardinality({t \in {NotFoundShape, NonZeroShape, UnexpectedShape}
                                  : HasTemplate(r.msg, t)}) = 1
                  /\ HasTemplate(r.msg, NotFoundShape) <=> o.kind = "FileNotFoundError"
                  /\ HasTemplate(r.msg, NonZeroShape) <=> o.kind = "CalledProcessError"
            /\ o.kind = "CalledProcessError" =>
                  Stripped(IF o.stderr # <<>> THEN o.stderr ELSE o.stdout, r.msg.args[2])

\* a call that exited non-zero with nothing on standard error and text on
\* standard output was reported
C10_Witness ==
    /\ unit.fn = "_run_adb_command"
    /\ unit.outcome.kind = "CalledProcessError"
    /\ unit.outcome.stderr = <<>>
    /\ strip(unit.outcome.stdout) # <<>>
    /\ ~unit.result.ok

(***************************************************************************)
(* C11                                                                     *)
(***************************************************************************)
\* s without its leading and trailing whitespace
StripOf(s) ==
    CHOOSE t \in {SubSeq(s, i, j) : i \in 1..(Len(s) + 1), j \in 0..Len(s)} : Stripped(s, t)

OpenedShape ==
    "Attempting to open app '{}'."

UnlaunchableShape ==
    "App '{}' found, but could not be launched via monkey. Output: {}"

NotInstalledShape ==
    "Failed to open app '{}'. It might not be installed or launchable. ADB Output: {}"

\* the monkey call of the last open_app exited 0 and printed nothing, or
\* printed 'Events injected: 1'
MonkeyLaunched ==
    \/ StripOf(unit.monkey.stdout) = <<>>
    \/ contains(StripOf(unit.monkey.stdout), lit_events_injected)

\* the package-list call of the last open_app exited 0 and its output holds
\* the package name
ProbeFound ==
    /\ unit.listed.kind = "exit0"
    /\ contains(StripOf(unit.listed.stdout), unit.package_name)

\* C11: when the monkey call succeeds, open_app returns success if the output
\* is empty or holds 'Events injected: 1'; otherwise failure 'found, but could
\* not be launched' if the package-list call succeeds and lists the package,
\* and failure 'might not be installed or launchable' if it does not; the
\* three results have three different shapes.
C11_OpenAppThreeResults ==
    (unit.fn = "open_app" /\ unit.monkey.kind = "exit0") =>
        LET r == unit.result
        IN  /\ r.raised = ""
            /\ Cardinality({t \in {OpenedShape, UnlaunchableShape, NotInstalledShape}
                            : HasTemplate(r.msg, t)}) = 1
            /\ MonkeyLaunched => (r.ok /\ HasTemplate(r.msg, OpenedShape))
            /\ (~MonkeyLaunched /\ ProbeFound) => (~r.ok /\ HasTemplate(r.msg, UnlaunchableShape))
            /\ (~MonkeyLaunched /\ ~ProbeFound) => (~r.ok /\ HasTemplate(r.msg, NotInstalledShape))

\* open_app was called, monkey printed something else and the package was listed
C11_Witness ==
    /\ unit.fn = "open_app"
    /\ unit.monkey.kind = "exit0"
    /\ ~MonkeyLaunched
    /\ ProbeFound
    /\ ~unit.result.ok

(***************************************************************************)
(* C12                                                                     *)
(***************************************************************************)
CaptureFailedShape ==
    "Failed to take screenshot on device: {}"

PullFailedShape ==
    "Failed to pull screenshot from device ({}) to {}: {}"

\* the method made an adb call with the given first argument
RanAdb(result, word) ==
    \E i \in 1..Len(result.calls) :
        /\ result.calls[i].fn = "subprocess.run"
        /\ Len(result.calls[i].argv) >= 2
        /\ result.calls[i].argv[2] = word

\* C12: take_screenshot_android returns failure 'Failed to take screenshot on
\* device' when the capture fails, and failure 'Failed to pull screenshot'
\* when the capture succeeds and the pull fails.
C12_ScreenshotStepFailures ==
    unit.fn = "take_screenshot_android" =>
        LET r == unit.result
        IN  /\ unit.captured.kind # "exit0" =>
                  /\ ~r.ok /\ r.raised = ""
                  /\ HasTemplate(r.msg, CaptureFailedShape)
                  /\ ~RanAdb(r, lit_pull)
            /\ (unit.captured.kind = "exit0" /\ RanAdb(r, lit_pull) /\ unit.pulled.kind # "exit0") =>
                  /\ ~r.ok /\ r.raised = ""
                  /\ HasTemplate(r.msg, PullFailedShape)

\* a screenshot whose capture succeeded and whose pull failed
C12_Witness ==
    /\ unit.fn = "take_screenshot_android"
    /\ unit.captured.kind = "exit0"
    /\ RanAdb(unit.result, lit_pull)
    /\ unit.pulled.kind # "exit0"
    /\ ~unit.result.ok

(***************************************************************************)
(* C13                                                                     *)
(***************************************************************************)
\* how the remote cleanup can end
CleanupOutcomes ==
    {ProcExit0(<<>>), ProcExit0(OutText), ProcNotFound, ProcOther, ProcNonZero(OutText, ErrText),
     ProcNonZero(<<>>, <<>>)}

\* the run that differs from the last take_screenshot_android only in how the
\* remote cleanup ends
OtherRun(removed) ==
    take_screenshot_android_given(lit_adb, unit.local_save_path, lit_sdcard_path, <<>>,
                                  unit.captured, unit.dir, unit.pulled, removed)

\* C13: two runs of take_screenshot_android that agree on everything but the
\* outcome of the remote cleanup return the same (success, message), and
\* after a successful pull the result is success whatever the cleanup does.
C13_CleanupNeverSurfaced ==
    unit.fn = "take_screenshot_android" =>
        /\ \A removed \in CleanupOutcomes :
              /\ OtherRun(removed).ok = unit.result.ok
              /\ OtherRun(removed).msg = unit.result.msg
              /\ OtherRun(removed).raised = unit.result.raised
        /\ (RanAdb(unit.result, lit_pull) /\ unit.pulled.kind = "exit0") =>
              /\ unit.result.ok
              /\ HasTemplate(unit.result.msg, "Screenshot saved to {}")

\* a screenshot that was pulled and whose remote cleanup failed
C13_Witness ==
    /\ unit.fn = "take_screenshot_android"
    /\ RanAdb(unit.result, lit_pull)
    /\ unit.pulled.kind = "exit0"
    /\ unit.removed.kind # "exit0"
    /\ in_list(lit_rm, unit.result.calls[Len(unit.result.calls)].argv)
    /\ unit.result.ok

(***************************************************************************)
(* C14                                                                     *)
(***************************************************************************)
\* the last command is "adb tap a b" and a or b is no integer
InvalidTap ==
    /\ Len(LastWords) = 4
    /\ LastWords[1] = lit_adb /\ LastWords[2] = lit_tap
    /\ \E i \in 3..4 : ~is_int(LastWords[i])

\* the last command is "adb swipe" with four coordinates and at most a
\* duration after them, one of the five no integer
InvalidSwipe ==
    /\ Len(LastWords) >= 6
    /\ LastWords[1] = lit_adb /\ LastWords[2] = lit_swipe
    /\ \E i \in 3..7 : i <= Len(LastWords) /\ ~is_int(LastWords[i])

InvalidTapShape ==
    "Jarvis (Droid) Error: Invalid coordinates for tap. Usage: adb tap <x> <y>"

InvalidSwipeShape ==
    "Jarvis (Droid) Error: Invalid coordinates/duration for swipe. Usage: adb swipe <x1> <y1> <x2> <y2> [duration_ms]"

AndroidUnavailable ==
    "Jarvis: AndroidAutomator not available/loaded, or no device connected."

\* C14 as stated: a tap or swipe with a non-integer argument logs the
\* invalid-arguments failure and calls no method of the Android backend.
C14_InvalidNumbersLogged ==
    last.done =>
        /\ InvalidTap => (Said(InvalidTapShape) /\ ~Called("android"))
        /\ InvalidSwipe => (Said(InvalidSwipeShape) /\ ~Called("android"))

\* C14 amended: a tap or swipe with a non-integer argument calls no method of
\* the Android backend and raises nothing; it logs the invalid-arguments
\* failure when the Android backend is available, and the 'not available'
\* message, without the invalid-arguments one, when it is not.
C14_InvalidNumbersNeverSent ==
    (last.done /\ (InvalidTap \/ InvalidSwipe)) =>
        /\ ~Called("android")
        /\ last.raised = ""
        /\ Loaded(android_automator_instance) =>
              /\ InvalidTap => Said(InvalidTapShape)
              /\ InvalidSwipe => Said(InvalidSwipeShape)
              /\ ~Said(AndroidUnavailable)
        /\ ~Loaded(android_automator_instance) =>
              /\ Said(AndroidUnavailable)
              /\ ~Said(InvalidTapShape) /\ ~Said(InvalidSwipeShape)

\* "adb tap" with a non-integer coordinate was answered by a loaded backend
C14_Witness ==
    /\ last.done
    /\ InvalidTap
    /\ Loaded(android_automator_instance)
    /\ Said(InvalidTapShape)

ShutdownCommands ==
    {commands[k] : k \in DOMAIN commands}

\* the process launches of the last command
Launches ==
    SelectSeq(last.ev, LAMBDA e : e.ev = "external" /\ e.op = "Popen")

SystemCommand ==
    Len(LastWords) > 1 /\ LastWords[1] = lit_system

NotFoundDirShape ==
    "Error: Directory '{}' not found or is not a directory."

ListingErrorShape ==
    "Error listing directory '{}': {}"

\* the method made the filesystem call
MadeCall(result, function) ==
    \E i \in 1..Len(result.calls) : result.calls[i].fn = function

\* C17: list_directory_contents returns the same 'not found' failure for a
\* missing path and for a path that is no directory, without listing it;
\* for a directory it returns (True, entries) in the order of the listing
\* call; when the listing call raises it returns an 'Error listing
\* directory' failure and raises nothing.
C17_ListDirectoryContents ==
    unit.fn = "list_directory_contents" =>
        LET r == unit.result
        IN  /\ r.raised = ""
            /\ unit.kind \in {"missing", "file"} =>
                  /\ ~r.ok
                  /\ r.msg = Msg(NotFoundDirShape, <<unit.dir_path>>)
                  /\ ~MadeCall(r, "os.listdir")
            /\ unit.kind = "dir" =>
                  /\ r.ok
                  /\ r.items = unit.entries
                  /\ MadeCall(r, "os.listdir")
            /\ unit.kind = "dir_unreadable" =>
                  /\ ~r.ok
                  /\ HasTemplate(r.msg, ListingErrorShape)
                  /\ ~HasTemplate(r.msg, NotFoundDirShape)

\* a directory with several entries was listed
C17_Witness ==
    /\ unit.fn = "list_directory_contents"
    /\ unit.kind = "dir"
    /\ Len(unit.entries) > 1
    /\ unit.result.ok

(***************************************************************************)
(* C18                                                                     *)
(***************************************************************************)
\* the positions of the newlines of a text
Newlines(s) ==
    {i \in 1..Len(s) : s[i] = "\n"}

\* the position of the k-th newline; 0 before the text, Len + 1 after it
Break(s, k) ==
    IF k = 0 THEN 0
    ELSE IF k > Cardinality(Newlines(s)) THEN Len(s) + 1
    ELSE CHOOSE i \in Newlines(s) : Cardinality({j \in Newlines(s) : j <= i}) = k

\* the k-th line of a text
Line(s, k) ==
    SubSeq(s, Break(s, k - 1) + 1, Break(s, k) - 1)

Blank(line) ==
    \A i \in 1..Len(line) : is_space(line[i])

\* the text of a line before its first tab
FirstField(line) ==
    IF \E i \in 1..Len(line) : line[i] = "\t"
    THEN SubSeq(line, 1, (CHOOSE i \in 1..Len(line) :
                              line[i] = "\t" /\ \A j \in 1..(i - 1) : line[j] # "\t") - 1)
    ELSE line

\* the numbers of the non-blank lines after the first
DeviceLines(s) ==
    {k \in 2..(Cardinality(Newlines(s)) + 1) : ~Blank(Line(s, k))}

\* the n-th of them
DeviceLine(s, n) ==
    CHOOSE k \in DeviceLines(s) : Cardinality({j \in DeviceLines(s) : j <= k}) = n

\* C18: when the runner succeeds, list_connected_devices returns (True, ids),
\* ids being in order the first tab-separated field of every non-blank line
\* of the runner's output after the first line; when the runner fails it
\* returns (False, the runner's message).
C18_DeviceIdentifiers ==
    unit.fn = "list_connected_devices" =>
        LET r   == unit.result
            out == TextOf(unit.ran.msg)
        IN  /\ r.raised = ""
            /\ unit.ran.ok =>
                  /\ r.ok
                  /\ Len(r.items) = Cardinality(DeviceLines(out))
                  /\ \A n \in 1..Len(r.items) :
                        r.items[n] = FirstField(Line(out, DeviceLine(out, n)))
            /\ ~unit.ran.ok =>
                  /\ ~r.ok
                  /\ r.msg = unit.ran.msg

\* a listing with a blank line between two devices was parsed
C18_Witness ==
    /\ unit.fn = "list_connected_devices"
    /\ unit.ran.ok
    /\ Len(unit.result.items) = 2
    /\ Cardinality(Newlines(TextOf(unit.ran.msg))) > 2

(***************************************************************************)
(* C19                                                                     *)
(***************************************************************************)
\* the number of single quotes among the first n characters of a text
QuotesBefore(s, n) ==
    Cardinality({j \in 1..n : s[j] = "'"})

\* where the i-th character of a text lands when every single quote before
\* it takes four characters
Landing(s, i) ==
    i + 3 * QuotesBefore(s, i - 1)

\* t is s with every single quote replaced by '\'' and nothing else changed
QuotesEscaped(s, t) ==
    /\ Len(t) = Len(s) + 3 * QuotesBefore(s, Len(s))
    /\ \A i \in 1..Len(s) :
          IF s[i] = "'"
          THEN SubSeq(t, Landing(s, i), Landing(s, i) + 3) = <<"'", "\\", "'", "'">>
          ELSE t[Landing(s, i)] = s[i]

\* C19: simulate_input_text makes exactly one runner call, with the arguments
\* shell, input, text and the text with every single quote replaced by '\''
\* and every other character unchanged, and returns the runner's result.
C19_TextEscaped ==
    unit.fn = "simulate_input_text" =>
        LET r == unit.result
        IN  /\ Len(r.calls) = 1
            /\ r.calls[1].fn = "subprocess.run"
            /\ \E t \in {r.calls[1].argv[Len(r.calls[1].argv)]} :
                  /\ QuotesEscaped(unit.text_to_type, t)
                  /\ r.calls[1].argv
                        = <<lit_adb>>
                          \o (IF unit.device_id # <<>> THEN <<lit_dash_s, unit.device_id>> ELSE <<>>)
                          \o <<lit_shell, lit_input, lit_text, t>>
                  /\ r = run_adb_command(lit_adb, <<lit_shell, lit_input, lit_text, t>>,
                                         unit.device_id, unit.outcome)

\* a text with two single quotes and other special characters was typed
C19_Witness ==
    /\ unit.fn = "simulate_input_text"
    /\ QuotesBefore(unit.text_to_type, Len(unit.text_to_type)) = 2
    /\ \E i \in 1..Len(unit.text_to_type) : unit.text_to_type[i] = "$"
    /\ unit.result.ok

(***************************************************************************)
(* C20                                                                     *)
(***************************************************************************)
\* the shell line that asks Windows to start the name
StartLine(name) ==
    <<"s", "t", "a", "r", "t", " ">> \o name

\* C20: open_application makes exactly one Popen call, with the shell line
\* 'start <name>'; it returns (True, "Attempting to open '<name>'.") exactly
\* when Popen does not raise, and when Popen raises it returns False with a
\* message that holds "Error opening application '<name>'" and raises nothing.
C20_OpenApplication ==
    unit.fn = "open_application" =>
        LET r == unit.result
        IN  /\ Len(r.calls) = 1
            /\ r.calls[1] = Call("Popen", <<StartLine(unit.app_name)>>)
            /\ r.raised = ""
            /\ r.ok <=> unit.oc = "ok"
            /\ r.ok <=> r.msg = Msg("Attempting to open '{}'.", <<unit.app_name>>)
            /\ ~r.ok =>
                  /\ r.msg.tpl[1] = "Error opening application '{}': {}"
                  /\ r.msg.args[1] = unit.app_name

\* Popen raised for a name of several words
C20_Witness ==
    /\ unit.fn = "open_application"
    /\ unit.oc = "raise"
    /\ ~unit.result.ok
    /\ Len(unit.app_name) > 1

(***************************************************************************)
(* C21                                                                     *)
(***************************************************************************)
\* one sequence of lines begins with the other
IsPrefix(s, t) ==
    /\ Len(s) <= Len(t)
    /\ SubSeq(t, 1, Len(s)) = s

\* a line as log_message writes it: the timestamp, the message, a line break
Timestamped(line) ==
    line.tpl[1] = "{timestamp} - {}\n"

\* C21: once the placeholder text is replaced, a command leaves the lines the
\* output area held as an unchanged prefix and adds timestamped lines, one
\* for each message, at the end: no line is removed, reordered or rewritten.
C21_LogAppendOnly ==
    [][output_area # <<Placeholder>> =>
          /\ IsPrefix(output_area, output_area')
          /\ Len(output_area') > Len(output_area)
          /\ \A i \in (Len(output_area) + 1)..Len(output_area') : Timestamped(output_area'[i])]_vars

(***************************************************************************)
(* C22                                                                     *)
(***************************************************************************)
\* the action of the last command names the backend: it is routed to it, or
\* it is an 'open' without a name, which goes to Windows by default
ActionOf(b) ==
    \/ RoutedTo(b)
    \/ b = "windows" /\ LastWords = <<lit_open>>

\* C22: a backend is constructed only by a command routed to it: a command
\* that is not routed to a backend ('hello', an unrecognized line, a command
\* routed to the other backend) leaves that backend's handle as it was and
\* does not invoke its constructor.
C22_ConstructedOnlyWhenRouted ==
    last.done =>
        \A b \in Backends :
            ~ActionOf(b) =>
                /\ HandleOf(b) = HandleBefore(b)
                /\ ~ConstructorInvoked(b)

(***************************************************************************)
(* C23                                                                     *)
(***************************************************************************)
\* the calls of the ADB command runner a method made, in the order made
RunnerCalls(result) ==
    SelectSeq(result.calls, LAMBDA c : c.fn = "subprocess.run")

\* the step of the screenshot sequence an adb call belongs to
StepOf(call) ==
    IF in_list(<<"s", "c", "r", "e", "e", "n", "c", "a", "p">>, call.argv) THEN "capture"
    ELSE IF in_list(<<"p", "u", "l", "l">>, call.argv) THEN "pull"
    ELSE IF in_list(<<"r", "m">>, call.argv) THEN "remove"
    ELSE "other"

\* C23: take_screenshot_android issues its runner calls in the order capture,
\* pull, remove, at most three of them and each only after the step before it
\* succeeded: a failed capture is followed by no call, a failed pull by no
\* remove, and a successful pull by exactly one remove.
C23_StepsInOrder ==
    unit.fn = "take_screenshot_android" =>
        LET runs == RunnerCalls(unit.result)
            n    == Len(runs)
        IN  /\ n \in 1..3
            /\ \A i \in 1..n : StepOf(runs[i]) = <<"capture", "pull", "remove">>[i]
            /\ n >= 2 => unit.captured.kind = "exit0"
            /\ n = 3 => unit.pulled.kind = "exit0"
            /\ unit.captured.kind # "exit0" => n = 1
            /\ (n >= 2 /\ unit.pulled.kind # "exit0") => n = 2
            /\ (n >= 2 /\ unit.pulled.kind = "exit0") => n = 3

\* the capture succeeded and the pull failed: two runner calls were made
C23_Witness ==
    /\ unit.fn = "take_screenshot_android"
    /\ unit.captured.kind = "exit0"
    /\ unit.pulled.kind # "exit0"
    /\ Len(RunnerCalls(unit.result)) = 2
    /\ StepOf(RunnerCalls(unit.result)[2]) = "pull"

(***************************************************************************)
(* C24                                                                     *)
(***************************************************************************)
\* the dispatcher handed the last command to a handler that needs the backend
Handled(b) ==
    /\ RoutedTo(b)
    /\ LastWords[1] \in {lit_list, lit_system, lit_adb} => Len(LastWords) > 1

\* the line a handler logs when its backend is not there
Unavailable(b) ==
    IF b = "windows"
    THEN "Jarvis: WindowsAutomator not available/loaded."
    ELSE "Jarvis: AndroidAutomator not available/loaded, or no device connected."

\* C24: a handle is unset, None or one of the instances constructed, and no
\* operation is called on a handle that holds no instance: a handler whose
\* backend is not there after the load attempt logs the 'not
\* available/loaded' line, calls no operation of the backend and raises nothing.
C24_NoCallOnAbsentHandle ==
    \A b \in Backends :
        /\ HandleOf(b) \in {NoAttr, None} \cup 1..instances
        /\ last.done =>
              /\ Called(b) => Loaded(HandleOf(b))
              /\ (Handled(b) /\ ~Loaded(HandleOf(b))) =>
                    /\ Said(Unavailable(b))
                    /\ ~Called(b)
                    /\ last.raised = ""

\* a system command was handled while the Windows backend could not be constructed
C24_Witness ==
    /\ last.done
    /\ Handled("windows")
    /\ LastWords[1] = lit_system
    /\ ~Loaded(windows_automator_instance)
    /\ Attempts("windows", ConstructionFailures) > 0
    /\ Said(Unavailable("windows"))

(***************************************************************************)
(* C25                                                                     *)
(***************************************************************************)
\* C25: processing one command makes at most one construction attempt for
\* each backend, invokes its constructor at most once and logs at most one
\* construction-failure line for it, also when the construction fails.
C25_OneAttemptPerCommand ==
    last.done =>
        \A b \in Backends :
            /\ Attempts(b, ConstructionFailures \cup {"ok"}) <= 1
            /\ Attempts(b, {"ok", "raised"}) <= 1
            /\ SaidCount(ConstructionErrors(b)) <= 1

(***************************************************************************)
(* C26                                                                     *)
(***************************************************************************)
\* the adb call is the monkey launch or the package-list probe
IsMonkey(call) ==
    in_list(<<"m", "o", "n", "k", "e", "y">>, call.argv)

IsProbe(call) ==
    in_list(<<"p", "m">>, call.argv) /\ in_list(<<"p", "a", "c", "k", "a", "g", "e", "s">>, call.argv)

\* C26: open_app makes the monkey call first and at most one more runner
\* call, the package-list probe, exactly when the monkey call exited
\* successfully with output that is neither empty nor holds 'Events injected:
\* 1'; when the monkey call fails, open_app returns (False, the runner's
\* error message) and makes no probe.
C26_ProbeOnlyAfterMonkey ==
    unit.fn = "open_app" =>
        LET runs == RunnerCalls(unit.result)
            ran  == run_adb_command(lit_adb, monkey_command(unit.package_name), unit.device_id,
                                    unit.monkey)
        IN  /\ Len(runs) \in 1..2
            /\ Len(unit.result.calls) = Len(runs)
            /\ IsMonkey(runs[1]) /\ ~IsProbe(runs[1])
            /\ Len(runs) = 2 <=> (unit.monkey.kind = "exit0" /\ ~MonkeyLaunched)
            /\ Len(runs) = 2 => IsProbe(runs[2]) /\ ~IsMonkey(runs[2])
            /\ unit.monkey.kind # "exit0" =>
                  /\ ~ran.ok
                  /\ ~unit.result.ok
                  /\ unit.result.msg = ran.msg
                  /\ unit.result.raised = ""
                  /\ Len(runs) = 1

\* the monkey call failed and open_app returned the runner's message
C26_Witness ==
    /\ unit.fn = "open_app"
    /\ unit.monkey.kind = "CalledProcessError"
    /\ ~unit.result.ok
    /\ HasTemplate(unit.result.msg, "ADB Command Error: '{}' failed with: {}")
    /\ Len(RunnerCalls(unit.result)) = 1
====
